---- MODULE Spec2Model ----
(***************************************************************************)
(* Semantic caches (Cosmos DB Mongo vCore, Cosmos DB NoSQL) and the Azure  *)
(* Search vector store of langchain_azure_ai, as state machines.           *)
(*                                                                         *)
(*   Spec       one cache instance, its handlers called one after another  *)
(*   SpecConc   one Mongo vCore cache instance called from several threads *)
(*   SpecSearch one AzureSearch store, its search entry points             *)
(***************************************************************************)
EXTENDS Integers, Sequences, FiniteSets, TLC

VARIABLES
    variant,          \* which cache class the instance is: "mongo" | "nosql"
    score_threshold,  \* self.score_threshold (None or a score)
    cache_dict,       \* self._cache_dict: index name -> vector store handle
    collection,       \* backend: the documents of the collection / container
    indexes,          \* backend: names of the indexes of the collection
    db_exists,        \* backend: the NoSQL database is present
    provision,        \* backend calls issued so far, per index name
    last,             \* the last handler call: arguments, outcome, backend calls
    cleared,          \* signatures cleared and not updated since
    pc,               \* SpecConc: each thread's position in its handler
    frame,            \* SpecConc: each thread's local variables
    search_type,      \* AzureSearch.search_type, the stored default mode
    call              \* SpecSearch: the last search call and what it did

cacheVars == <<variant, score_threshold, cache_dict, collection, indexes,
               db_exists, provision, last, cleared>>
concVars == <<pc, frame>>
searchVars == <<search_type, call>>
vars == <<cacheVars, concVars, searchVars>>

None == "None"
NoThreshold == 0 - 1    \* score_threshold=None

(***************************************************************************)
(* Bounds of the model.                                                    *)
(***************************************************************************)
MaxDocs == 2        \* documents the backend collection holds at most
NumThreads == 2     \* threads calling one cache instance in SpecConc
ScoreScale == 10    \* backend scores are integers, ScoreScale standing for 1.0

(***************************************************************************)
(* Inputs.                                                                 *)
(***************************************************************************)
Sigs == {"sigA", "sigB"}
Prompts == {"p", "q"}

\* A Generation object and an object of another type.
Generation(text) == [type |-> "Generation", text |-> text]
NotGeneration == [type |-> "str", text |-> "x"]
ReturnVals == { <<Generation("a")>>,
                <<Generation("b"), Generation("a")>>,
                <<Generation("a"), NotGeneration>> }

\* Outcomes of the index administration calls of the backend.
BackendModes == {"ok", "list_indexes_fails", "create_index_fails"}

(***************************************************************************)
(* cache.py _hash: sha256 hex digest; distinct digests for distinct        *)
(* inputs, written here by their first characters.                         *)
(***************************************************************************)
_hash(input) ==
    CASE input = "sigA" -> "9f3c"
      [] input = "sigB" -> "41d0"
      [] OTHER -> "e3b0"

_index_name(llm_string) == <<"cache:", _hash(llm_string)>>

_cache_name(llm_string) == <<"cache:", _hash(llm_string)>>

IndexNames == { _index_name(s) : s \in Sigs }

(***************************************************************************)
(* Serialized return values. A payload is what metadata["return_val"]      *)
(* holds: the output of langchain_core dumps, a legacy plain JSON list of  *)
(* generation dicts, or text that is no JSON.                               *)
(***************************************************************************)
dumps(return_val) == [format |-> "lc", items |-> return_val]

LegacyPayload(texts) == [format |-> "legacy", items |-> texts]
GarbagePayload == [format |-> "not_json", items |-> <<>>]

\* langchain_core loads: json.loads with the Reviver object hook. Objects
\* written by dumps are revived; dicts without the "lc" marker come back as
\* plain dicts; text that is no JSON raises.
loads(payload) ==
    CASE payload.format = "lc" ->
            [raised |-> None, iterable |-> TRUE, value |-> payload.items]
      [] payload.format = "legacy" ->
            [raised |-> None, iterable |-> TRUE,
             value |-> [i \in 1..Len(payload.items) |->
                           [type |-> "dict", text |-> payload.items[i]]]]
      [] OTHER ->
            [raised |-> "JSONDecodeError", iterable |-> FALSE, value |-> <<>>]

_load_generations_from_json(payload) ==
    CASE payload.format = "legacy" ->
            [raised |-> None,
             value |-> [i \in 1..Len(payload.items) |-> Generation(payload.items[i])]]
      [] payload.format = "not_json" ->
            [raised |-> "ValueError", value |-> <<>>]
      [] OTHER ->
            [raised |-> "ValidationError", value |-> <<>>]

(***************************************************************************)
(* Backend documents and the nearest-neighbour search.                     *)
(***************************************************************************)
\* azure_cosmos_db_mongo_vcore.py _insert_texts: one document per text.
Doc(text, metadata) == [textContent |-> text, metadata |-> metadata]

CacheMetadata(llm_string, prompt, payload) ==
    [llm_string |-> llm_string, prompt |-> prompt, return_val |-> payload]

\* The backend's score of a stored text against the query text: the
\* embeddings of equal texts are equal and score highest.
ExactScore == ScoreScale
PartialScore == ScoreScale \div 2
SearchScore(query, text) == IF query = text THEN ExactScore ELSE PartialScore

\* The rows a k = 1 nearest-neighbour request over `docs` can return: the
\* request carries the query vector, the vector path and k, and neither an
\* index name nor a filter, so every document of the collection competes.
\* Documents of equal score are returned in an order the backend chooses.
Nearest(docs, query) ==
    IF Len(docs) = 0 THEN { <<>> }
    ELSE { <<[similarityScore |-> SearchScore(query, docs[i].textContent),
              document |-> docs[i]]>> :
             i \in { j \in 1..Len(docs) :
                       \A m \in 1..Len(docs) :
                           SearchScore(query, docs[j].textContent)
                             >= SearchScore(query, docs[m].textContent) } }

\* FilterRows with the threshold test off by one: a row whose score equals
\* the threshold is skipped too.
RECURSIVE FilterRows_skip_equal(_, _)
FilterRows_skip_equal(rows, threshold) ==
    IF Len(rows) = 0 THEN <<>>
    ELSE LET res == Head(rows)
             rest == FilterRows_skip_equal(Tail(rows), threshold)
         IN IF res.similarityScore <= threshold THEN rest
            ELSE <<res.document.metadata>> \o rest

\* _similarity_search_with_score, lines 583-600: rows below the threshold
\* are skipped, the others become (metadata, score) pairs.
RECURSIVE FilterRows(_, _)
FilterRows(rows, threshold) ==
    IF Len(rows) = 0 THEN <<>>
    ELSE LET res == Head(rows)
             rest == FilterRows(Tail(rows), threshold)
         IN IF res.similarityScore < threshold THEN rest
            ELSE <<res.document.metadata>> \o rest

\* similarity_search of the Mongo vCore store, for each answer of the backend.
Mongo_similarity_search(query, threshold) ==
    { FilterRows(rows, threshold) : rows \in Nearest(collection, query) }

\* similarity_search(query, k=1) of the NoSQL store: the nearest item.
NoSql_similarity_search(query) ==
    { FilterRows(rows, 0) : rows \in Nearest(collection, query) }

(***************************************************************************)
(* lookup, lines 326-342 and 457-472: the deserialization loop.            *)
(***************************************************************************)
RECURSIVE ReadGenerations(_)
ReadGenerations(results) ==
    IF Len(results) = 0 THEN [raised |-> None, generations |-> <<>>]
    ELSE LET payload == Head(results).return_val
             first == loads(payload)
             fallback == _load_generations_from_json(payload)
             rest == ReadGenerations(Tail(results))
         IN IF first.raised = None /\ first.iterable
            THEN IF rest.raised # None THEN rest
                 ELSE [raised |-> None, generations |-> first.value \o rest.generations]
            ELSE IF fallback.raised # None
                 THEN [raised |-> fallback.raised, generations |-> <<>>]
                 ELSE IF rest.raised # None THEN rest
                      ELSE [raised |-> None,
                            generations |-> fallback.value \o rest.generations]

(***************************************************************************)
(* AzureCosmosDBMongoVCoreSemanticCache                                    *)
(***************************************************************************)
\* The vector store object built for an index name; serial tells the
\* objects built for one name apart.
Handle(index_name, serial) == [index_name |-> index_name, serial |-> serial]

Count(log, index_name, what) ==
    [log EXCEPT ![index_name] = [@ EXCEPT ![what] = @ + 1]]

\* _get_llm_cache without the registry test of lines 271-272: every call
\* builds a store and provisions its index.
Mongo_get_llm_cache_always_new(llm_string, backend) ==
    LET index_name == _index_name(llm_string)
        registry == (index_name :> Handle(index_name, provision[index_name].handles + 1))
                        @@ cache_dict
        checked == Count(Count(provision, index_name, "handles"), index_name, "checks")
        created == Count(checked, index_name, "creates")
    IN IF backend = "list_indexes_fails"
       THEN [registry |-> registry, idx |-> indexes, log |-> checked,
             calls |-> <<"new_store", "list_indexes">>, raised |-> "BackendError"]
       ELSE IF index_name \in indexes
       THEN [registry |-> registry, idx |-> indexes, log |-> checked,
             calls |-> <<"new_store", "list_indexes">>, raised |-> None]
       ELSE IF backend = "create_index_fails"
       THEN [registry |-> registry, idx |-> indexes, log |-> created,
             calls |-> <<"new_store", "list_indexes", "create_index">>,
             raised |-> "BackendError"]
       ELSE [registry |-> registry, idx |-> indexes \cup {index_name}, log |-> created,
             calls |-> <<"new_store", "list_indexes", "create_index">>,
             raised |-> None]

\* _get_llm_cache, lines 265-310. `backend` says how the index
\* administration calls of the backend answer. The result is the state the
\* call leaves and what it raised; calls lists the backend calls it issued.
Mongo_get_llm_cache(llm_string, backend) ==
    LET index_name == _index_name(llm_string)
        hit == [registry |-> cache_dict, idx |-> indexes, log |-> provision,
                calls |-> <<>>, raised |-> None]
        \* lines 275-291: the new store is registered before its index is looked at
        registry == (index_name :> Handle(index_name, provision[index_name].handles + 1))
                        @@ cache_dict
        built == Count(provision, index_name, "handles")
        checked == Count(built, index_name, "checks")
        created == Count(checked, index_name, "creates")
    IN IF index_name \in DOMAIN cache_dict THEN hit
       ELSE IF backend = "list_indexes_fails"
       THEN [registry |-> registry, idx |-> indexes, log |-> checked,
             calls |-> <<"new_store", "list_indexes">>, raised |-> "BackendError"]
       ELSE IF index_name \in indexes
       THEN [registry |-> registry, idx |-> indexes, log |-> checked,
             calls |-> <<"new_store", "list_indexes">>, raised |-> None]
       ELSE IF backend = "create_index_fails"
       THEN [registry |-> registry, idx |-> indexes, log |-> created,
             calls |-> <<"new_store", "list_indexes", "create_index">>,
             raised |-> "BackendError"]
       ELSE [registry |-> registry, idx |-> indexes \cup {index_name}, log |-> created,
             calls |-> <<"new_store", "list_indexes", "create_index">>,
             raised |-> None]

\* lookup, line 323: self.score_threshold or 0.0
Threshold == IF score_threshold = NoThreshold \/ score_threshold = 0
             THEN 0 ELSE score_threshold

Result(op, prompt, llm_string, return_val, outcome, error, value, hit, calls) ==
    [op |-> op, prompt |-> prompt, llm_string |-> llm_string,
     return_val |-> return_val, outcome |-> outcome, error |-> error,
     value |-> value, hit |-> hit, calls |-> calls]

\* lookup, lines 312-342
Mongo_lookup(prompt, llm_string, backend) ==
    /\ variant = "mongo"
    /\ LET got == Mongo_get_llm_cache(llm_string, backend)
       IN /\ cache_dict' = got.registry
          /\ indexes' = got.idx
          /\ provision' = got.log
          /\ IF got.raised # None
             THEN last' = Result("lookup", prompt, llm_string, <<>>, "raise",
                                 got.raised, <<>>, <<>>, got.calls)
             ELSE \E results \in Mongo_similarity_search(prompt, Threshold) :
                    LET read == ReadGenerations(results)
                        calls == got.calls \o <<"aggregate">>
                    IN last' =
                         IF read.raised # None
                         THEN Result("lookup", prompt, llm_string, <<>>, "raise",
                                     read.raised, <<>>, results, calls)
                         ELSE IF Len(read.generations) = 0
                         THEN Result("lookup", prompt, llm_string, <<>>, "miss",
                                     None, <<>>, results, calls)
                         ELSE Result("lookup", prompt, llm_string, <<>>, "hit",
                                     None, read.generations, results, calls)
    /\ UNCHANGED <<variant, score_threshold, collection, db_exists, cleared>>
    /\ UNCHANGED <<concVars, searchVars>>

AllGenerations(return_val) ==
    \A i \in 1..Len(return_val) : return_val[i].type = "Generation"

\* update that resolves the store before it validates return_val.
Mongo_update_validates_late(prompt, llm_string, return_val, backend) ==
    /\ variant = "mongo"
    /\ AllGenerations(return_val) => Len(collection) < MaxDocs
    /\ LET got == Mongo_get_llm_cache(llm_string, backend)
           metadata == CacheMetadata(llm_string, prompt, dumps(return_val))
       IN /\ cache_dict' = got.registry
          /\ indexes' = got.idx
          /\ provision' = got.log
          /\ IF got.raised # None
             THEN /\ last' = Result("update", prompt, llm_string, return_val,
                                    "raise", got.raised, <<>>, <<>>, got.calls)
                  /\ UNCHANGED <<collection, cleared>>
             ELSE IF ~AllGenerations(return_val)
             THEN /\ last' = Result("update", prompt, llm_string, return_val, "raise",
                                    "ValueError", <<>>, <<>>, got.calls)
                  /\ UNCHANGED <<collection, cleared>>
             ELSE /\ collection' = Append(collection, Doc(prompt, metadata))
                  /\ cleared' = cleared \ {llm_string}
                  /\ last' = Result("update", prompt, llm_string, return_val,
                                    "ok", None, <<>>, <<>>,
                                    got.calls \o <<"insert_many">>)
    /\ UNCHANGED <<variant, score_threshold, db_exists>>
    /\ UNCHANGED <<concVars, searchVars>>

\* update as an upsert: an entry of the same prompt and llm_string is
\* replaced by the new one.
Mongo_update_replaces_entry(prompt, llm_string, return_val, backend) ==
    /\ variant = "mongo"
    /\ AllGenerations(return_val) => Len(collection) < MaxDocs
    /\ IF ~AllGenerations(return_val)
       THEN /\ last' = Result("update", prompt, llm_string, return_val, "raise",
                              "ValueError", <<>>, <<>>, <<>>)
            /\ UNCHANGED <<cache_dict, indexes, provision, collection, cleared>>
       ELSE LET got == Mongo_get_llm_cache(llm_string, backend)
                metadata == CacheMetadata(llm_string, prompt, dumps(return_val))
                same == { i \in 1..Len(collection) :
                            /\ collection[i].textContent = prompt
                            /\ collection[i].metadata.llm_string = llm_string }
            IN /\ cache_dict' = got.registry
               /\ indexes' = got.idx
               /\ provision' = got.log
               /\ IF got.raised # None
                  THEN /\ last' = Result("update", prompt, llm_string, return_val,
                                         "raise", got.raised, <<>>, <<>>, got.calls)
                       /\ UNCHANGED <<collection, cleared>>
                  ELSE /\ collection' =
                              IF same = {}
                              THEN Append(collection, Doc(prompt, metadata))
                              ELSE [i \in 1..Len(collection) |->
                                       IF i \in same THEN Doc(prompt, metadata)
                                       ELSE collection[i]]
                       /\ cleared' = cleared \ {llm_string}
                       /\ last' = Result("update", prompt, llm_string, return_val,
                                         "ok", None, <<>>, <<>>,
                                         got.calls \o <<"insert_many">>)
    /\ UNCHANGED <<variant, score_threshold, db_exists>>
    /\ UNCHANGED <<concVars, searchVars>>

\* update, lines 344-359
Mongo_update(prompt, llm_string, return_val, backend) ==
    /\ variant = "mongo"
    /\ AllGenerations(return_val) => Len(collection) < MaxDocs
    /\ IF ~AllGenerations(return_val)
       THEN /\ last' = Result("update", prompt, llm_string, return_val, "raise",
                              "ValueError", <<>>, <<>>, <<>>)
            /\ UNCHANGED <<cache_dict, indexes, provision, collection, cleared>>
       ELSE LET got == Mongo_get_llm_cache(llm_string, backend)
                metadata == CacheMetadata(llm_string, prompt, dumps(return_val))
            IN /\ cache_dict' = got.registry
               /\ indexes' = got.idx
               /\ provision' = got.log
               /\ IF got.raised # None
                  THEN /\ last' = Result("update", prompt, llm_string, return_val,
                                         "raise", got.raised, <<>>, <<>>, got.calls)
                       /\ UNCHANGED <<collection, cleared>>
                  ELSE /\ collection' = Append(collection, Doc(prompt, metadata))
                       /\ cleared' = cleared \ {llm_string}
                       /\ last' = Result("update", prompt, llm_string, return_val,
                                         "ok", None, <<>>, <<>>,
                                         got.calls \o <<"insert_many">>)
    /\ UNCHANGED <<variant, score_threshold, db_exists>>
    /\ UNCHANGED <<concVars, searchVars>>

\* clear without the registry test of line 364.
Mongo_clear_unguarded(llm_string) ==
    /\ variant = "mongo"
    /\ collection' = <<>>
    /\ cleared' = cleared \cup {llm_string}
    /\ last' = Result("clear", None, llm_string, <<>>, "ok", None,
                      <<>>, <<>>, <<"delete_many">>)
    /\ UNCHANGED <<variant, score_threshold, cache_dict, indexes, db_exists, provision>>
    /\ UNCHANGED <<concVars, searchVars>>

\* clear, lines 361-365
Mongo_clear(llm_string) ==
    /\ variant = "mongo"
    /\ IF _index_name(llm_string) \in DOMAIN cache_dict
       THEN /\ collection' = <<>>
            /\ cleared' = cleared \cup {llm_string}
            /\ last' = Result("clear", None, llm_string, <<>>, "ok", None,
                              <<>>, <<>>, <<"delete_many">>)
       ELSE /\ last' = Result("clear", None, llm_string, <<>>, "ok", None,
                              <<>>, <<>>, <<>>)
            /\ UNCHANGED <<collection, cleared>>
    /\ UNCHANGED <<variant, score_threshold, cache_dict, indexes, db_exists, provision>>
    /\ UNCHANGED <<concVars, searchVars>>

(***************************************************************************)
(* AzureCosmosDBNoSqlSemanticCache. The vector store it drives,            *)
(* AzureCosmosDBNoSqlVectorSearch, is described by NoSqlStore_*: built     *)
(* with create_container it makes sure database and container exist; its   *)
(* reads and writes go to the container it was built on and fail once the  *)
(* database is deleted.                                                    *)
(***************************************************************************)
NoSqlStore_init == TRUE

NoSqlStore_usable == db_exists

\* _get_llm_cache, lines 423-446
NoSql_get_llm_cache(llm_string) ==
    LET cache_name == _cache_name(llm_string)
    IN IF cache_name \in DOMAIN cache_dict
       THEN [registry |-> cache_dict, log |-> provision, db |-> db_exists,
             calls |-> <<>>]
       ELSE [registry |-> (cache_name :> Handle(cache_name,
                                               provision[cache_name].handles + 1))
                             @@ cache_dict,
             log |-> Count(provision, cache_name, "handles"),
             db |-> NoSqlStore_init,
             calls |-> <<"new_store">>]

\* lookup, lines 448-472
NoSql_lookup(prompt, llm_string) ==
    /\ variant = "nosql"
    /\ LET got == NoSql_get_llm_cache(llm_string)
       IN /\ cache_dict' = got.registry
          /\ provision' = got.log
          /\ db_exists' = got.db
          /\ IF ~got.db
             THEN last' = Result("lookup", prompt, llm_string, <<>>, "raise",
                                 "BackendError", <<>>, <<>>, got.calls \o <<"query_items">>)
             ELSE \E results \in NoSql_similarity_search(prompt) :
                    LET read == ReadGenerations(results)
                        calls == got.calls \o <<"query_items">>
                    IN last' =
                         IF read.raised # None
                         THEN Result("lookup", prompt, llm_string, <<>>, "raise",
                                     read.raised, <<>>, results, calls)
                         ELSE IF Len(read.generations) = 0
                         THEN Result("lookup", prompt, llm_string, <<>>, "miss",
                                     None, <<>>, results, calls)
                         ELSE Result("lookup", prompt, llm_string, <<>>, "hit",
                                     None, read.generations, results, calls)
    /\ UNCHANGED <<variant, score_threshold, collection, indexes, cleared>>
    /\ UNCHANGED <<concVars, searchVars>>

\* update, lines 474-488
NoSql_update(prompt, llm_string, return_val) ==
    /\ variant = "nosql"
    /\ AllGenerations(return_val) => Len(collection) < MaxDocs
    /\ IF ~AllGenerations(return_val)
       THEN /\ last' = Result("update", prompt, llm_string, return_val, "raise",
                              "ValueError", <<>>, <<>>, <<>>)
            /\ UNCHANGED <<cache_dict, provision, db_exists, collection, cleared>>
       ELSE LET got == NoSql_get_llm_cache(llm_string)
                metadata == CacheMetadata(llm_string, prompt, dumps(return_val))
            IN /\ cache_dict' = got.registry
               /\ provision' = got.log
               /\ db_exists' = got.db
               /\ IF ~got.db
                  THEN /\ last' = Result("update", prompt, llm_string, return_val,
                                         "raise", "BackendError", <<>>, <<>>,
                                         got.calls \o <<"create_item">>)
                       /\ UNCHANGED <<collection, cleared>>
                  ELSE /\ collection' = Append(collection, Doc(prompt, metadata))
                       /\ cleared' = cleared \ {llm_string}
                       /\ last' = Result("update", prompt, llm_string, return_val,
                                         "ok", None, <<>>, <<>>,
                                         got.calls \o <<"create_item">>)
    /\ UNCHANGED <<variant, score_threshold, indexes>>
    /\ UNCHANGED <<concVars, searchVars>>

\* clear, lines 490-494
NoSql_clear(llm_string) ==
    /\ variant = "nosql"
    /\ IF _cache_name(llm_string) \in DOMAIN cache_dict
       THEN IF db_exists
            THEN /\ collection' = <<>>
                 /\ db_exists' = FALSE
                 /\ cleared' = cleared \cup {llm_string}
                 /\ last' = Result("clear", None, llm_string, <<>>, "ok", None,
                                   <<>>, <<>>, <<"delete_database">>)
            ELSE /\ last' = Result("clear", None, llm_string, <<>>, "raise",
                                   "BackendError", <<>>, <<>>, <<"delete_database">>)
                 /\ UNCHANGED <<collection, db_exists, cleared>>
       ELSE /\ last' = Result("clear", None, llm_string, <<>>, "ok", None,
                              <<>>, <<>>, <<>>)
            /\ UNCHANGED <<collection, db_exists, cleared>>
    /\ UNCHANGED <<variant, score_threshold, cache_dict, indexes, provision>>
    /\ UNCHANGED <<concVars, searchVars>>

(***************************************************************************)
(* Spec: one cache instance over a backend that may hold entries written   *)
(* earlier, by this or an older version of the library.                    *)
(***************************************************************************)
Thresholds == {NoThreshold, ExactScore, ExactScore + 1}

EarlierEntries ==
    { <<>>,
      <<Doc("p", CacheMetadata("sigA", "p", LegacyPayload(<<"a">>)))>>,
      <<Doc("p", CacheMetadata("sigA", "p", GarbagePayload))>> }

NoCall == Result("init", None, None, <<>>, "ok", None, <<>>, <<>>, <<>>)

ConcIdle == /\ pc = <<>>
            /\ frame = <<>>

SearchIdle == /\ search_type = None
              /\ call = <<>>

Init ==
    /\ variant \in {"mongo", "nosql"}
    /\ score_threshold \in (IF variant = "mongo" THEN Thresholds ELSE {NoThreshold})
    /\ cache_dict = <<>>
    /\ collection \in EarlierEntries
    /\ indexes = {}
    /\ db_exists = (variant = "mongo" \/ collection # <<>>)
    /\ provision = [n \in IndexNames |-> [handles |-> 0, checks |-> 0, creates |-> 0]]
    /\ last = NoCall
    /\ cleared = {}
    /\ ConcIdle
    /\ SearchIdle

Next ==
    \/ \E p \in Prompts, s \in Sigs, b \in BackendModes : Mongo_lookup(p, s, b)
    \/ \E p \in Prompts, s \in Sigs, r \in ReturnVals, b \in BackendModes :
          Mongo_update(p, s, r, b)
    \/ \E s \in Sigs : Mongo_clear(s)
    \/ \E p \in Prompts, s \in Sigs : NoSql_lookup(p, s)
    \/ \E p \in Prompts, s \in Sigs, r \in ReturnVals : NoSql_update(p, s, r)
    \/ \E s \in Sigs : NoSql_clear(s)

Spec == Init /\ [][Next]_vars

(***************************************************************************)
(* Properties of the cache, checked under Spec.                            *)
(***************************************************************************)
Registered(llm_string) == _index_name(llm_string) \in DOMAIN cache_dict

BackendState == <<cache_dict, collection, indexes, db_exists, provision>>

\* C1: on a cache that holds no other entry, update(p, sig, gens) followed by
\* lookup(p, sig) returns exactly gens, when the score threshold admits an
\* exact match.
C1_UpdateThenLookup ==
    [][ ( /\ last.op = "update" /\ last.outcome = "ok"
          /\ Len(collection) = 1
          /\ Threshold <= ExactScore
          /\ last'.op = "lookup"
          /\ last'.prompt = last.prompt
          /\ last'.llm_string = last.llm_string )
        => ( /\ last'.outcome = "hit"
             /\ last'.value = last.return_val ) ]_vars

C1_Witness ==
    /\ variant = "mongo"
    /\ score_threshold = ExactScore
    /\ last.op = "lookup" /\ last.outcome = "hit"
    /\ last.value = <<Generation("a")>>
    /\ collection = <<Doc(last.prompt,
                          CacheMetadata(last.llm_string, last.prompt,
                                        dumps(<<Generation("a")>>)))>>

\* C2: a lookup for one model signature never returns an entry that update
\* stored under another signature.
C2_SignatureIsolation ==
    (last.op = "lookup" /\ last.outcome = "hit")
        => \A i \in 1..Len(last.hit) :
              last.hit[i].return_val.format = "lc"
                 => last.hit[i].llm_string = last.llm_string

\* C3: a lookup whose nearest entry can be read neither by the structured
\* codec nor as legacy JSON is a miss; it does not raise.
Undecodable(payload) ==
    /\ loads(payload).raised # None
    /\ _load_generations_from_json(payload).raised # None

C3_MalformedEntryIsMiss ==
    ( /\ last.op = "lookup"
      /\ Len(last.hit) > 0
      /\ Undecodable(last.hit[1].return_val) )
        => last.outcome = "miss"

\* C4: once clear(sig) has acted on a resolved signature, every lookup for
\* sig that the backend answers is a miss until the next update for sig.
C4_ClearedUntilUpdate ==
    ( /\ last.op = "lookup"
      /\ last.llm_string \in cleared
      /\ last.error # "BackendError" )
        => last.outcome = "miss"

\* C5: clear for a signature that was never looked up or updated raises
\* nothing, issues no backend call and leaves registry and entries alone.
C5_ClearUnresolvedIsNoop ==
    [][ (last'.op = "clear" /\ ~Registered(last'.llm_string))
        => ( /\ last'.outcome = "ok"
             /\ last'.calls = <<>>
             /\ UNCHANGED BackendState ) ]_vars

C5_Witness ==
    /\ last.op = "clear" /\ last.outcome = "ok" /\ last.calls = <<>>
    /\ ~Registered(last.llm_string)
    /\ cache_dict # <<>>
    /\ Len(collection) > 0

\* C6: update with an element that is no Generation raises and changes
\* nothing: no registry entry, no store, no index, no document.
C6_UpdateRejectsBeforeAnyEffect ==
    [][ (last'.op = "update" /\ ~AllGenerations(last'.return_val))
        => ( /\ last'.outcome = "raise"
             /\ last'.error = "ValueError"
             /\ last'.calls = <<>>
             /\ UNCHANGED BackendState ) ]_vars

C6_Witness ==
    /\ last.op = "update" /\ last.outcome = "raise" /\ last.error = "ValueError"
    /\ last.return_val = <<Generation("a"), NotGeneration>>
    /\ ~Registered(last.llm_string)

\* C7: per model signature the store handle is built at most once, the index
\* existence check and create_index are issued at most once, and the
\* registry keeps the handle built first.
C7_ProvisionedOnce ==
    \A n \in IndexNames :
        /\ provision[n].handles <= 1
        /\ provision[n].checks <= 1
        /\ provision[n].creates <= 1
        /\ n \in DOMAIN cache_dict => cache_dict[n] = Handle(n, 1)

C7_Witness ==
    /\ last.op \in {"lookup", "update"}
    /\ last.outcome \in {"hit", "ok"}
    /\ last.calls \in { <<"aggregate">>, <<"insert_many">> }
    /\ provision[_index_name(last.llm_string)].creates = 1
    /\ provision[_index_name(last.llm_string)].checks = 1

\* C26: clear(llm_string=sig1) removes no document stored under another
\* signature.
C26_ClearKeepsOtherSignatures ==
    [][last'.op = "clear" =>
          \A i \in 1..Len(collection) :
              collection[i].metadata.llm_string # last'.llm_string
                  => \E j \in 1..Len(collection') : collection'[j] = collection[i]]_vars

\* C27: in the Mongo vCore cache no lookup or update searches or inserts
\* through a store whose index was neither found nor created.
C27_HandleHasIndex ==
    (/\ variant = "mongo"
     /\ last.op \in {"lookup", "update"}
     /\ \E n \in 1..Len(last.calls) : last.calls[n] \in {"aggregate", "insert_many"})
        => _index_name(last.llm_string) \in indexes

\* C28: after clear(llm_string=sig) for a resolved signature, an update of
\* well-formed generations under sig on the same cache instance completes
\* without error.
C28_UsableAfterClear ==
    [][(/\ last.op = "clear"
        /\ last.outcome = "ok"
        /\ Registered(last.llm_string)
        /\ last'.op = "update"
        /\ last'.llm_string = last.llm_string
        /\ AllGenerations(last'.return_val))
          => last'.outcome = "ok"]_vars

\* C24: in the Mongo vCore cache a successful update appends one document
\* of the prompt with metadata {llm_string, prompt, return_val} and leaves
\* every earlier document as it was, also when an entry of that prompt and
\* llm_string exists; no other call changes the stored documents but
\* clear, which alone removes any.
C24_InsertOnly ==
    [][variant = "mongo" =>
          IF last'.op = "update" /\ last'.outcome = "ok"
          THEN collection' =
                   Append(collection,
                          Doc(last'.prompt,
                              CacheMetadata(last'.llm_string, last'.prompt,
                                            dumps(last'.return_val))))
          ELSE \/ collection' = collection
               \/ last'.op = "clear" /\ collection' = <<>>]_vars

C24_Witness ==
    /\ variant = "mongo"
    /\ last.op = "update"
    /\ last.outcome = "ok"
    /\ Len(collection) = 2
    /\ collection[1] = collection[2]
    /\ collection[2].metadata.prompt = last.prompt

(***************************************************************************)
(* SpecConc: threads of the host call lookup and update on one Mongo vCore *)
(* cache instance. The handlers hold no lock, so a thread can be preempted *)
(* between the statements of _get_llm_cache; each step below is one of     *)
(* them.                                                                   *)
(***************************************************************************)
Threads == 1..NumThreads

NoFrame == [op |-> None, prompt |-> None, llm_string |-> None,
            return_val |-> <<>>, vectorstore |-> None, calls |-> <<>>]

\* lookup line 314 / update lines 346-353: the handler is entered, update
\* has validated return_val, and _get_llm_cache computes the index name.
T_call(t, op, prompt, llm_string, return_val) ==
    /\ pc[t] = "idle"
    /\ op = "update" => (AllGenerations(return_val) /\ Len(collection) < MaxDocs)
    /\ op = "lookup" => return_val = <<>>
    /\ frame' = [frame EXCEPT ![t] = [op |-> op, prompt |-> prompt,
                                      llm_string |-> llm_string,
                                      return_val |-> return_val,
                                      vectorstore |-> None, calls |-> <<>>]]
    /\ pc' = [pc EXCEPT ![t] = "registry_test"]
    /\ UNCHANGED <<cacheVars, searchVars>>

\* lines 271-272
T_registry_test(t) ==
    /\ pc[t] = "registry_test"
    /\ LET index_name == _index_name(frame[t].llm_string)
       IN IF index_name \in DOMAIN cache_dict
          THEN /\ frame' = [frame EXCEPT ![t].vectorstore = cache_dict[index_name]]
               /\ pc' = [pc EXCEPT ![t] = "run"]
          ELSE /\ pc' = [pc EXCEPT ![t] = "build_store"]
               /\ UNCHANGED frame
    /\ UNCHANGED <<cacheVars, searchVars>>

\* lines 275-291: build a store and put it in the registry
T_build_store(t) ==
    /\ pc[t] = "build_store"
    /\ LET index_name == _index_name(frame[t].llm_string)
       IN /\ cache_dict' = (index_name :> Handle(index_name,
                                                 provision[index_name].handles + 1))
                              @@ cache_dict
          /\ provision' = Count(provision, index_name, "handles")
    /\ frame' = [frame EXCEPT ![t].calls = @ \o <<"new_store">>]
    /\ pc' = [pc EXCEPT ![t] = "read_back"]
    /\ UNCHANGED <<variant, score_threshold, collection, indexes, db_exists,
                   last, cleared, searchVars>>

\* line 294
T_read_back(t) ==
    /\ pc[t] = "read_back"
    /\ frame' = [frame EXCEPT ![t].vectorstore =
                                 cache_dict[_index_name(frame[t].llm_string)]]
    /\ pc' = [pc EXCEPT ![t] = "index_exists"]
    /\ UNCHANGED <<cacheVars, searchVars>>

T_raise(t, calls) ==
    /\ last' = Result(frame[t].op, frame[t].prompt, frame[t].llm_string,
                      frame[t].return_val, "raise", "BackendError", <<>>, <<>>, calls)
    /\ frame' = [frame EXCEPT ![t] = NoFrame]
    /\ pc' = [pc EXCEPT ![t] = "idle"]

\* line 295, index_exists (lines 166-181) of the store read back
T_index_exists(t, backend) ==
    /\ pc[t] = "index_exists"
    /\ LET index_name == frame[t].vectorstore.index_name
           calls == frame[t].calls \o <<"list_indexes">>
       IN /\ provision' = Count(provision, index_name, "checks")
          /\ IF backend = "list_indexes_fails"
             THEN T_raise(t, calls)
             ELSE /\ frame' = [frame EXCEPT ![t].calls = calls]
                  /\ pc' = [pc EXCEPT ![t] =
                               IF index_name \in indexes THEN "run" ELSE "create_index"]
                  /\ UNCHANGED last
    /\ UNCHANGED <<variant, score_threshold, cache_dict, collection, indexes,
                   db_exists, cleared, searchVars>>

\* lines 296-308
T_create_index(t, backend) ==
    /\ pc[t] = "create_index"
    /\ LET index_name == frame[t].vectorstore.index_name
           calls == frame[t].calls \o <<"create_index">>
       IN /\ provision' = Count(provision, index_name, "creates")
          /\ IF backend = "create_index_fails"
             THEN /\ T_raise(t, calls)
                  /\ UNCHANGED indexes
             ELSE /\ indexes' = indexes \cup {index_name}
                  /\ frame' = [frame EXCEPT ![t].calls = calls]
                  /\ pc' = [pc EXCEPT ![t] = "run"]
                  /\ UNCHANGED last
    /\ UNCHANGED <<variant, score_threshold, cache_dict, collection,
                   db_exists, cleared, searchVars>>

\* lookup lines 315-342 / update lines 354-359, on the store obtained
T_run(t) ==
    /\ pc[t] = "run"
    /\ IF frame[t].op = "lookup"
       THEN /\ \E results \in Mongo_similarity_search(frame[t].prompt, Threshold) :
                 LET read == ReadGenerations(results)
                     calls == frame[t].calls \o <<"aggregate">>
                     outcome == IF read.raised # None THEN "raise"
                                ELSE IF Len(read.generations) = 0 THEN "miss"
                                ELSE "hit"
                 IN last' = Result("lookup", frame[t].prompt, frame[t].llm_string,
                                   <<>>, outcome, read.raised, read.generations,
                                   results, calls)
            /\ UNCHANGED <<collection, cleared>>
       ELSE /\ Len(collection) < MaxDocs
            /\ collection' = Append(collection,
                                Doc(frame[t].prompt,
                                    CacheMetadata(frame[t].llm_string, frame[t].prompt,
                                                  dumps(frame[t].return_val))))
            /\ cleared' = cleared \ {frame[t].llm_string}
            /\ last' = Result("update", frame[t].prompt, frame[t].llm_string,
                              frame[t].return_val, "ok", None, <<>>, <<>>,
                              frame[t].calls \o <<"insert_many">>)
    /\ frame' = [frame EXCEPT ![t] = NoFrame]
    /\ pc' = [pc EXCEPT ![t] = "idle"]
    /\ UNCHANGED <<variant, score_threshold, cache_dict, indexes, db_exists,
                   provision, searchVars>>

InitConc ==
    /\ variant = "mongo"
    /\ score_threshold = NoThreshold
    /\ cache_dict = <<>>
    /\ collection = <<>>
    /\ indexes = {}
    /\ db_exists = TRUE
    /\ provision = [n \in IndexNames |-> [handles |-> 0, checks |-> 0, creates |-> 0]]
    /\ last = NoCall
    /\ cleared = {}
    /\ pc = [t \in Threads |-> "idle"]
    /\ frame = [t \in Threads |-> NoFrame]
    /\ SearchIdle

NextConc ==
    \E t \in Threads :
        \/ \E s \in Sigs : T_call(t, "lookup", "p", s, <<>>)
        \/ \E s \in Sigs : T_call(t, "update", "p", s, <<Generation("a")>>)
        \/ T_registry_test(t)
        \/ T_build_store(t)
        \/ T_read_back(t)
        \/ \E b \in BackendModes : T_index_exists(t, b)
        \/ \E b \in BackendModes : T_create_index(t, b)
        \/ T_run(t)

SpecConc == InitConc /\ [][NextConc]_vars

\* C8: with lookups or updates for one signature running concurrently, the
\* store registered first stays in the registry and create_index is issued
\* at most once per index.
C8_FirstWriterWins ==
    \A n \in IndexNames :
        /\ provision[n].creates <= 1
        /\ n \in DOMAIN cache_dict => cache_dict[n] = Handle(n, 1)

(***************************************************************************)
(* AzureSearch (azuresearch.py): the search entry points.                  *)
(*                                                                         *)
(* A Python dict is a function from its keys; a backend row is the dict    *)
(* the search client yields.  An operation is an operator from its         *)
(* arguments and the backend's response to                                 *)
(*   [raised, value, calls]                                                *)
(* raised: the exception it ends with (None: it returns), value: what it   *)
(* returns, calls: the embedding calls and search requests it issued, in   *)
(* order.  Scores are integers.                                            *)
(***************************************************************************)
DefaultK == 4       \* k: int = 4

EmptyDict == [key \in {} |-> None]
get(d, key, default) == IF key \in DOMAIN d THEN d[key] ELSE default
Without(d, keys) == [key \in DOMAIN d \ keys |-> d[key]]
Merge(a, b) == b @@ a       \* {**a, **b}: the keys of b win

FIELDS_ID == "id"
FIELDS_CONTENT == "content"
FIELDS_CONTENT_VECTOR == "content_vector"
FIELDS_METADATA == "metadata"

\* The value of a row's metadata field: the JSON text of a dict, a dict, or
\* text that is not JSON.
JsonText(d) == [enc |-> "json", value |-> d]
DictValue(d) == [enc |-> "dict", value |-> d]
NotJsonText == [enc |-> "text", value |-> EmptyDict]

json_loads(x) ==
    CASE x.enc = "json" -> [raised |-> None, value |-> x.value]
      [] x.enc = "dict" -> [raised |-> "TypeError", value |-> EmptyDict]
      [] OTHER -> [raised |-> "JSONDecodeError", value |-> EmptyDict]

Document(page_content, metadata) ==
    [page_content |-> page_content, metadata |-> metadata]

Returned(value, calls) == [raised |-> None, value |-> value, calls |-> calls]
Raised(error, calls) == [raised |-> error, value |-> <<>>, calls |-> calls]

_result_to_document(result) ==
    LET fields_metadata ==
            IF FIELDS_METADATA \in DOMAIN result
            THEN IF result[FIELDS_METADATA].enc = "dict"
                 THEN [raised |-> None, value |-> result[FIELDS_METADATA].value]
                 ELSE json_loads(result[FIELDS_METADATA])
            ELSE [raised |-> None,
                  value |-> Without(result, {FIELDS_CONTENT_VECTOR, FIELDS_CONTENT})]
        fields_id ==
            IF FIELDS_ID \in DOMAIN result
            THEN FIELDS_ID :> result[FIELDS_ID]
            ELSE EmptyDict
    IN  IF fields_metadata.raised # None
        THEN [raised |-> fields_metadata.raised, doc |-> None]
        ELSE IF FIELDS_CONTENT \notin DOMAIN result
        THEN [raised |-> "KeyError", doc |-> None]
        ELSE [raised |-> None,
              doc |-> Document(result[FIELDS_CONTENT],
                               Merge(fields_id, fields_metadata.value))]

\* One element of the comprehension of _results_to_documents.
DocAndScore(result) ==
    LET d == _result_to_document(result)
    IN  IF d.raised # None THEN [raised |-> d.raised, item |-> <<>>]
        ELSE IF "@search.score" \notin DOMAIN result
        THEN [raised |-> "KeyError", item |-> <<>>]
        ELSE [raised |-> None, item |-> <<d.doc, result["@search.score"]>>]

RECURSIVE _results_to_documents(_)
_results_to_documents(results) ==
    IF results = <<>> THEN [raised |-> None, value |-> <<>>]
    ELSE LET first == DocAndScore(Head(results))
             rest == _results_to_documents(Tail(results))
         IN  IF first.raised # None
             THEN [raised |-> first.raised, value |-> <<>>]
             ELSE IF rest.raised # None THEN rest
             ELSE [raised |-> None, value |-> <<first.item>> \o rest.value]

\* _aresults_to_documents building its documents from rows stripped of
\* their id field.
RECURSIVE _aresults_to_documents_no_id(_)
_aresults_to_documents_no_id(results) ==
    IF results = <<>> THEN [raised |-> None, value |-> <<>>]
    ELSE LET first == DocAndScore(Without(Head(results), {FIELDS_ID}))
             rest == _aresults_to_documents_no_id(Tail(results))
         IN  IF first.raised # None
             THEN [raised |-> first.raised, value |-> <<>>]
             ELSE IF rest.raised # None THEN rest
             ELSE [raised |-> None, value |-> <<first.item>> \o rest.value]

RECURSIVE _aresults_to_documents(_)
_aresults_to_documents(results) ==
    IF results = <<>> THEN [raised |-> None, value |-> <<>>]
    ELSE LET first == DocAndScore(Head(results))
             rest == _aresults_to_documents(Tail(results))
         IN  IF first.raised # None
             THEN [raised |-> first.raised, value |-> <<>>]
             ELSE IF rest.raised # None THEN rest
             ELSE [raised |-> None, value |-> <<first.item>> \o rest.value]

\* [doc for doc, _ in docs_and_scores]
DocsOnly(r) ==
    [r EXCEPT !.value = [i \in 1..Len(r.value) |-> r.value[i][1]]]

\* The calls an operation issues.
EmbedCall(fn, text) == [call |-> fn, text |-> text]
SearchCall(client, search_text, k, filters, options, kwargs) ==
    [call |-> client, search_text |-> search_text, k_nearest_neighbors |-> k,
     filter |-> filters, top |-> k, options |-> options, kwargs |-> kwargs]

_simple_search(text_query, k, filters, kwargs) ==
    SearchCall("client.search", text_query, k, filters, EmptyDict, kwargs)

_asimple_search(text_query, k, filters, kwargs) ==
    SearchCall("async_client.search", text_query, k, filters, EmptyDict, kwargs)

vector_search_with_score(query, k, kwargs, response) ==
    LET filters == get(kwargs, "filters", None)
        calls == << EmbedCall("embed_query", query),
                    _simple_search("", k, filters, EmptyDict) >>
        docs == _results_to_documents(response.rows)
    IN  [raised |-> docs.raised, value |-> docs.value, calls |-> calls]

avector_search_with_score(query, k, kwargs, response) ==
    LET filters == get(kwargs, "filters", None)
        calls == << EmbedCall("_aembed_query", query),
                    _asimple_search("", k, filters, Without(kwargs, {"filters"})) >>
        docs == _aresults_to_documents(response.rows)
    IN  [raised |-> docs.raised, value |-> docs.value, calls |-> calls]

vector_search(query, k, kwargs, response) ==
    DocsOnly(vector_search_with_score(
        query, k, "filters" :> get(kwargs, "filters", None), response))

avector_search(query, k, kwargs, response) ==
    DocsOnly(avector_search_with_score(
        query, k, "filters" :> get(kwargs, "filters", None), response))

hybrid_search_with_score(query, k, kwargs, response) ==
    LET filters == get(kwargs, "filters", None)
        calls == << EmbedCall("embed_query", query),
                    _simple_search(query, k, filters, Without(kwargs, {"filters"})) >>
        docs == _results_to_documents(response.rows)
    IN  [raised |-> docs.raised, value |-> docs.value, calls |-> calls]

ahybrid_search_with_score(query, k, kwargs, response) ==
    LET filters == get(kwargs, "filters", None)
        calls == << EmbedCall("_aembed_query", query),
                    _asimple_search(query, k, filters, Without(kwargs, {"filters"})) >>
        docs == _aresults_to_documents(response.rows)
    IN  [raised |-> docs.raised, value |-> docs.value, calls |-> calls]

hybrid_search(query, k, kwargs, response) ==
    DocsOnly(hybrid_search_with_score(query, k, kwargs, response))

ahybrid_search(query, k, kwargs, response) ==
    DocsOnly(ahybrid_search_with_score(query, k, kwargs, response))

\* query_type, query_caption and query_answer of the semantic request.
SemanticOptions ==
    ("query_type" :> "semantic") @@ ("query_caption" :> "extractive")
        @@ ("query_answer" :> "extractive")

\* semantic_answers_dict: answer key -> text and highlights, a later answer
\* replacing an earlier one with its key.
RECURSIVE AnswersDict(_)
AnswersDict(semantic_answers) ==
    IF semantic_answers = <<>> THEN EmptyDict
    ELSE LET n == Len(semantic_answers)
             a == semantic_answers[n]
         IN  Merge(AnswersDict(SubSeq(semantic_answers, 1, n - 1)),
                   a.key :> [text |-> a.text, highlights |-> a.highlights])

\* One element of the comprehension of
\* semantic_hybrid_search_with_score_and_rerank, evaluated in source order:
\* pop content, pop id, the metadata, captions and answers, the two scores.
RerankItem(result, semantic_answers_dict) ==
    LET popped_content == Without(result, {FIELDS_CONTENT})
        fields_id == IF FIELDS_ID \in DOMAIN popped_content
                     THEN FIELDS_ID :> popped_content[FIELDS_ID]
                     ELSE EmptyDict
        popped == Without(popped_content, {FIELDS_ID})
        fields_metadata ==
            IF FIELDS_METADATA \in DOMAIN popped
            THEN json_loads(popped[FIELDS_METADATA])
            ELSE [raised |-> None,
                  value |-> Without(popped, {FIELDS_CONTENT_VECTOR})]
        captions ==
            IF get(popped, "@search.captions", <<>>) # <<>>
            THEN ("text" :> popped["@search.captions"][1].text)
                     @@ ("highlights" :> popped["@search.captions"][1].highlights)
            ELSE EmptyDict
        answers == get(semantic_answers_dict, get(popped, FIELDS_ID, ""), "")
        metadata == Merge(Merge(fields_id, fields_metadata.value),
                          ("captions" :> captions) @@ ("answers" :> answers))
    IN  IF FIELDS_CONTENT \notin DOMAIN result
        THEN [raised |-> "KeyError", item |-> <<>>]
        ELSE IF fields_metadata.raised # None
        THEN [raised |-> fields_metadata.raised, item |-> <<>>]
        ELSE IF "@search.score" \notin DOMAIN popped
                 \/ "@search.reranker_score" \notin DOMAIN popped
        THEN [raised |-> "KeyError", item |-> <<>>]
        ELSE [raised |-> None,
              item |-> << Document(result[FIELDS_CONTENT], metadata),
                          popped["@search.score"],
                          popped["@search.reranker_score"] >>]

RECURSIVE RerankDocs(_, _)
RerankDocs(results, semantic_answers_dict) ==
    IF results = <<>> THEN [raised |-> None, value |-> <<>>]
    ELSE LET first == RerankItem(Head(results), semantic_answers_dict)
             rest == RerankDocs(Tail(results), semantic_answers_dict)
         IN  IF first.raised # None
             THEN [raised |-> first.raised, value |-> <<>>]
             ELSE IF rest.raised # None THEN rest
             ELSE [raised |-> None, value |-> <<first.item>> \o rest.value]

RECURSIVE ARerankDocs(_, _)
ARerankDocs(results, semantic_answers_dict) ==
    IF results = <<>> THEN [raised |-> None, value |-> <<>>]
    ELSE LET first == RerankItem(Head(results), semantic_answers_dict)
             rest == ARerankDocs(Tail(results), semantic_answers_dict)
         IN  IF first.raised # None
             THEN [raised |-> first.raised, value |-> <<>>]
             ELSE IF rest.raised # None THEN rest
             ELSE [raised |-> None, value |-> <<first.item>> \o rest.value]

semantic_hybrid_search_with_score_and_rerank(query, k, kwargs, response) ==
    LET filters == get(kwargs, "filters", None)
        calls == << EmbedCall("embed_query", query),
                    SearchCall("client.search", query, k, filters,
                               SemanticOptions, Without(kwargs, {"filters"})) >>
        docs == RerankDocs(response.rows, AnswersDict(response.answers))
    IN  [raised |-> docs.raised, value |-> docs.value, calls |-> calls]

asemantic_hybrid_search_with_score_and_rerank(query, k, kwargs, response) ==
    LET filters == get(kwargs, "filters", None)
        calls == << EmbedCall("_aembed_query", query),
                    SearchCall("async_client.search", query, k, filters,
                               SemanticOptions, Without(kwargs, {"filters"})) >>
        docs == ARerankDocs(response.rows, AnswersDict(response.answers))
    IN  [raised |-> docs.raised, value |-> docs.value, calls |-> calls]

\* The two comprehensions that close semantic_hybrid_search_with_score;
\* which is the position of the score in the triple (2: score, 3: reranker
\* score).  A score_threshold of None is a kwargs without that key.
RECURSIVE ScoredAbove(_, _, _)
ScoredAbove(docs_and_scores, which, kwargs) ==
    IF docs_and_scores = <<>> THEN <<>>
    ELSE LET t == Head(docs_and_scores)
             rest == ScoredAbove(Tail(docs_and_scores), which, kwargs)
         IN  IF "score_threshold" \notin DOMAIN kwargs
                  \/ t[which] >= kwargs["score_threshold"]
             THEN << <<t[1], t[which]>> >> \o rest
             ELSE rest

semantic_hybrid_search_with_score(query, k, kwargs, response) ==
    LET score_type == get(kwargs, "score_type", "score")
        r == semantic_hybrid_search_with_score_and_rerank(
                 query, k, Without(kwargs, {"score_type", "score_threshold"}),
                 response)
    IN  IF r.raised # None THEN r
        ELSE IF score_type = "score"
        THEN [r EXCEPT !.value = ScoredAbove(r.value, 2, kwargs)]
        ELSE IF score_type = "reranker_score"
        THEN [r EXCEPT !.value = ScoredAbove(r.value, 3, kwargs)]
        ELSE [r EXCEPT !.value = None]

asemantic_hybrid_search_with_score(query, k, kwargs, response) ==
    LET score_type == get(kwargs, "score_type", "score")
        r == asemantic_hybrid_search_with_score_and_rerank(
                 query, k, Without(kwargs, {"score_type", "score_threshold"}),
                 response)
    IN  IF r.raised # None THEN r
        ELSE IF score_type = "score"
        THEN [r EXCEPT !.value = ScoredAbove(r.value, 2, kwargs)]
        ELSE IF score_type = "reranker_score"
        THEN [r EXCEPT !.value = ScoredAbove(r.value, 3, kwargs)]
        ELSE [r EXCEPT !.value = None]

semantic_hybrid_search(query, k, kwargs, response) ==
    LET r == semantic_hybrid_search_with_score_and_rerank(query, k, kwargs, response)
    IN  [r EXCEPT !.value = [i \in 1..Len(r.value) |-> r.value[i][1]]]

asemantic_hybrid_search(query, k, kwargs, response) ==
    LET r == asemantic_hybrid_search_with_score_and_rerank(query, k, kwargs, response)
    IN  [r EXCEPT !.value = [i \in 1..Len(r.value) |-> r.value[i][1]]]

\* The four dispatchers.  kwargs holds every keyword argument of the call
\* but k; the stored default is self.search_type.
similarity_search(default, query, k, kwargs, response) ==
    LET given == get(kwargs, "search_type", None)
        mode == IF given = None \/ given = "" THEN default ELSE given
        rest == Without(kwargs, {"search_type"})
    IN  CASE mode = "similarity" -> vector_search(query, k, rest, response)
          [] mode = "hybrid" -> hybrid_search(query, k, rest, response)
          [] mode = "semantic_hybrid" ->
                 semantic_hybrid_search(query, k, rest, response)
          [] OTHER -> Raised("ValueError", <<>>)

similarity_search_with_score(default, query, k, kwargs, response) ==
    LET mode == get(kwargs, "search_type", default)
        rest == Without(kwargs, {"search_type"})
    IN  CASE mode = "similarity" ->
                 vector_search_with_score(query, k, rest, response)
          [] mode = "hybrid" -> hybrid_search_with_score(query, k, rest, response)
          [] mode = "semantic_hybrid" ->
                 semantic_hybrid_search_with_score(query, k, rest, response)
          [] OTHER -> Raised("ValueError", <<>>)

asimilarity_search(default, query, k, kwargs, response) ==
    LET given == get(kwargs, "search_type", None)
        mode == IF given = None \/ given = "" THEN default ELSE given
        rest == Without(kwargs, {"search_type"})
    IN  CASE mode = "similarity" -> avector_search(query, k, rest, response)
          [] mode = "hybrid" -> ahybrid_search(query, k, rest, response)
          [] mode = "semantic_hybrid" ->
                 asemantic_hybrid_search(query, k, rest, response)
          [] OTHER -> Raised("ValueError", <<>>)

\* kwargs.get, not pop: search_type stays in the kwargs handed on.
asimilarity_search_with_score(default, query, k, kwargs, response) ==
    LET mode == get(kwargs, "search_type", default)
    IN  CASE mode = "similarity" ->
                 avector_search_with_score(query, k, kwargs, response)
          [] mode = "hybrid" -> ahybrid_search_with_score(query, k, kwargs, response)
          [] mode = "semantic_hybrid" ->
                 asemantic_hybrid_search_with_score(query, k, kwargs, response)
          [] OTHER -> Raised("ValueError", <<>>)

(***************************************************************************)
(* SpecSearch: one AzureSearch store; each step is one call of a search    *)
(* entry point, answered by the backend with some rows.                    *)
(***************************************************************************)
MaxRows == 2        \* rows the backend returns for one request at most

Caption == [text |-> "cap", highlights |-> "hl"]

RowCatalogue ==
    << \* metadata stored as JSON text, captions present
       (FIELDS_ID :> "1") @@ (FIELDS_CONTENT :> "alpha")
           @@ (FIELDS_CONTENT_VECTOR :> <<1, 0>>)
           @@ (FIELDS_METADATA :> JsonText("source" :> "s1"))
           @@ ("@search.score" :> 9) @@ ("@search.reranker_score" :> 3)
           @@ ("@search.captions" :> <<Caption>>),
       \* no metadata field: the other fields are the metadata
       (FIELDS_ID :> "2") @@ (FIELDS_CONTENT :> "beta")
           @@ (FIELDS_CONTENT_VECTOR :> <<0, 1>>) @@ ("title" :> "t2")
           @@ ("@search.score" :> 7) @@ ("@search.reranker_score" :> 4),
       \* metadata already a dict
       (FIELDS_ID :> "3") @@ (FIELDS_CONTENT :> "gamma")
           @@ (FIELDS_METADATA :> DictValue("source" :> "s3"))
           @@ ("@search.score" :> 5) @@ ("@search.reranker_score" :> 2),
       \* metadata with an id key of its own
       (FIELDS_ID :> "4") @@ (FIELDS_CONTENT :> "delta")
           @@ (FIELDS_METADATA :> JsonText("id" :> "other"))
           @@ ("@search.score" :> 8) @@ ("@search.reranker_score" :> 1),
       \* no score
       (FIELDS_ID :> "5") @@ (FIELDS_CONTENT :> "epsilon")
           @@ (FIELDS_METADATA :> JsonText("source" :> "s5")),
       \* no id
       (FIELDS_CONTENT :> "zeta")
           @@ (FIELDS_METADATA :> JsonText("source" :> "s6"))
           @@ ("@search.score" :> 6) @@ ("@search.reranker_score" :> 5),
       \* metadata that is not JSON
       (FIELDS_ID :> "7") @@ (FIELDS_CONTENT :> "eta")
           @@ (FIELDS_METADATA :> NotJsonText)
           @@ ("@search.score" :> 4) @@ ("@search.reranker_score" :> 6) >>

\* The backend's answers to a request: up to MaxRows consecutive rows of the
\* catalogue, without semantic answers or with one.
RowLists ==
    { SubSeq(RowCatalogue, w[1], w[1] + w[2] - 1) :
          w \in { v \in (1..Len(RowCatalogue)) \X (0..MaxRows) :
                      v[1] + v[2] - 1 <= Len(RowCatalogue) } }

Answer(key) == [key |-> key, text |-> "ans", highlights |-> "ahl"]

Responses ==
    { [rows |-> rows, answers |-> <<>>] : rows \in RowLists }
        \cup { [rows |-> SubSeq(RowCatalogue, 1, 1), answers |-> <<Answer(key)>>] :
                   key \in {"1", ""} }

SearchTypes == {"similarity", "hybrid", "semantic_hybrid"}

\* search_type as the caller may give it, "absent" for a call without it.
GivenSearchTypes == SearchTypes \cup {"absent", "", "mmr"}
StoredSearchTypes == SearchTypes \cup {"bogus"}

Kwargs(given, filters) ==
    (IF given = "absent" THEN EmptyDict ELSE "search_type" :> given)
        @@ (IF filters = None THEN EmptyDict ELSE "filters" :> filters)

KwargsSet == { Kwargs(g, f) : g \in GivenSearchTypes, f \in {None, "f eq 1"} }

SearchCallRecord(op, kwargs, response, result) ==
    [op |-> op, query |-> "q", kwargs |-> kwargs, response |-> response,
     raised |-> result.raised, value |-> result.value, calls |-> result.calls]

Call_similarity_search(kwargs, response) ==
    /\ call' = SearchCallRecord("similarity_search", kwargs, response,
                   similarity_search(search_type, "q", DefaultK, kwargs, response))
    /\ UNCHANGED <<cacheVars, concVars, search_type>>

Call_similarity_search_with_score(kwargs, response) ==
    /\ call' = SearchCallRecord("similarity_search_with_score", kwargs, response,
                   similarity_search_with_score(search_type, "q", DefaultK,
                                                kwargs, response))
    /\ UNCHANGED <<cacheVars, concVars, search_type>>

Call_asimilarity_search(kwargs, response) ==
    /\ call' = SearchCallRecord("asimilarity_search", kwargs, response,
                   asimilarity_search(search_type, "q", DefaultK, kwargs, response))
    /\ UNCHANGED <<cacheVars, concVars, search_type>>

Call_asimilarity_search_with_score(kwargs, response) ==
    /\ call' = SearchCallRecord("asimilarity_search_with_score", kwargs, response,
                   asimilarity_search_with_score(search_type, "q", DefaultK,
                                                 kwargs, response))
    /\ UNCHANGED <<cacheVars, concVars, search_type>>

NoSearchCall ==
    SearchCallRecord("init", EmptyDict, [rows |-> <<>>, answers |-> <<>>],
                     Returned(<<>>, <<>>))

InitSearch ==
    /\ variant = "mongo"
    /\ score_threshold = NoThreshold
    /\ cache_dict = <<>>
    /\ collection = <<>>
    /\ indexes = {}
    /\ db_exists = TRUE
    /\ provision = [n \in IndexNames |-> [handles |-> 0, checks |-> 0, creates |-> 0]]
    /\ last = NoCall
    /\ cleared = {}
    /\ ConcIdle
    /\ search_type \in StoredSearchTypes
    /\ call = NoSearchCall

NextSearch ==
    \/ \E kw \in KwargsSet, r \in Responses : Call_similarity_search(kw, r)
    \/ \E kw \in KwargsSet, r \in Responses : Call_similarity_search_with_score(kw, r)
    \/ \E kw \in KwargsSet, r \in Responses : Call_asimilarity_search(kw, r)
    \/ \E kw \in KwargsSet, r \in Responses :
          Call_asimilarity_search_with_score(kw, r)

SpecSearch == InitSearch /\ [][NextSearch]_vars

(***************************************************************************)
(* Properties of the search entry points, checked under SpecSearch.        *)
(***************************************************************************)
WithScoreOps == {"similarity_search_with_score", "asimilarity_search_with_score"}
PlainOps == {"similarity_search", "asimilarity_search"}

\* The mode a call asks for: the search_type the caller gives, the stored
\* default when the caller gives none.  similarity_search and
\* asimilarity_search declare search_type as Optional[str] = None and take an
\* empty string as none given.
ModeOf(c) ==
    IF "search_type" \in DOMAIN c.kwargs
           /\ (c.kwargs["search_type"] # "" \/ c.op \in WithScoreOps)
    THEN c.kwargs["search_type"]
    ELSE search_type

\* The mode string of a call: the search_type the caller gives, whatever
\* its value, and the stored default when the caller gives none.
ModeString(c) ==
    IF "search_type" \in DOMAIN c.kwargs THEN c.kwargs["search_type"]
    ELSE search_type

\* C9: a call of similarity_search, similarity_search_with_score or of their
\* async variants whose mode string is none of similarity, hybrid,
\* semantic_hybrid ends with ValueError, and no embedding call and no
\* search request was issued for it.
C9_UnknownModeRejectedFirst ==
    (call.op \in WithScoreOps \cup PlainOps /\ ModeString(call) \notin SearchTypes)
        => (call.raised = "ValueError" /\ call.calls = <<>>)

\* C10: in each of the three modes, similarity_search_with_score and
\* asimilarity_search_with_score called with the same arguments and answered
\* with the same rows end alike: the same exception, or the same list of
\* (document, score) pairs in the same order.
C10_SyncAsyncSameResult ==
    call.op \in WithScoreOps =>
        LET sync == similarity_search_with_score(
                        search_type, call.query, DefaultK, call.kwargs, call.response)
            async == asimilarity_search_with_score(
                         search_type, call.query, DefaultK, call.kwargs, call.response)
        IN  /\ call.raised = sync.raised /\ call.raised = async.raised
            /\ call.value = sync.value /\ call.value = async.value

C10_Witness ==
    /\ call.op = "asimilarity_search_with_score"
    /\ ModeOf(call) = "semantic_hybrid"
    /\ Len(call.response.rows) = 2
    /\ call.raised = None
    /\ Len(call.value) = 2
    /\ call.value[1][1].metadata["id"] = "1"

\* the documents a call returned, without their scores
ReturnedDocuments(c) ==
    IF c.op \in WithScoreOps
    THEN [n \in 1..Len(c.value) |-> c.value[n][1]]
    ELSE c.value

\* C22: in every mode, a call answered with rows whose metadata field is
\* already a dict returns, and the metadata of each document holds the keys
\* of its row's dict with their values.
C22_DecodedMetadataAccepted ==
    (/\ call.op \in WithScoreOps \cup PlainOps
     /\ ModeOf(call) \in SearchTypes
     /\ call.response.rows # <<>>
     /\ \A n \in 1..Len(call.response.rows) :
           /\ FIELDS_METADATA \in DOMAIN call.response.rows[n]
           /\ call.response.rows[n][FIELDS_METADATA].enc = "dict")
        => /\ call.raised = None
           /\ Len(call.value) = Len(call.response.rows)
           /\ \A n \in 1..Len(call.value) :
                 LET stored == call.response.rows[n][FIELDS_METADATA].value
                     metadata == ReturnedDocuments(call)[n].metadata
                 IN  \A key \in DOMAIN stored :
                         key \in DOMAIN metadata /\ metadata[key] = stored[key]

\* C30: each document made from a row that has an id field carries that id
\* under the id key of its metadata, whatever the row's metadata holds.
C30_RowIdIsDocumentId ==
    (/\ call.op \in WithScoreOps \cup PlainOps
     /\ ModeOf(call) \in SearchTypes
     /\ call.raised = None)
        => \A n \in 1..Len(call.value) :
               FIELDS_ID \in DOMAIN call.response.rows[n]
                   => LET metadata == ReturnedDocuments(call)[n].metadata
                      IN  /\ FIELDS_ID \in DOMAIN metadata
                          /\ metadata[FIELDS_ID] = call.response.rows[n][FIELDS_ID]

(***************************************************************************)
(* Maximal marginal relevance.                                             *)
(*                                                                         *)
(* vectorstores/utils.py (maximal_marginal_relevance and its cosine        *)
(* similarity) is specified in section 4.1 of the specification.  Vectors  *)
(* have integer coordinates; a cosine similarity is kept in units of       *)
(* 1/CosScale, rounded toward zero; lambda is a fraction <<num, den>>.     *)
(* Indices into the candidate list count from 0, as in Python.             *)
(***************************************************************************)
CosScale == 20      \* a cosine similarity of 1.0

CacheIdle ==
    /\ variant = "mongo"
    /\ score_threshold = NoThreshold
    /\ cache_dict = <<>>
    /\ collection = <<>>
    /\ indexes = {}
    /\ db_exists = TRUE
    /\ provision = [n \in IndexNames |-> [handles |-> 0, checks |-> 0, creates |-> 0]]
    /\ last = NoCall
    /\ cleared = {}

RECURSIVE Dot(_, _)
Dot(a, b) == IF a = <<>> THEN 0 ELSE Head(a) * Head(b) + Dot(Tail(a), Tail(b))

Max(S) == CHOOSE x \in S : \A y \in S : x >= y

\* cos(a, b) in units of 1/CosScale; 0 when either vector has norm 0.
cosine_similarity(a, b) ==
    LET d == Dot(a, b)
        nn == Dot(a, a) * Dot(b, b)
        dd == d * d * CosScale * CosScale
        magnitude == CHOOSE c \in 0..CosScale :
                         c * c * nn <= dd /\ dd < (c + 1) * (c + 1) * nn
    IN  IF nn = 0 THEN 0
        ELSE IF d < 0 THEN 0 - magnitude ELSE magnitude

\* lambda * cos(q, V[i]) - (1 - lambda) * max over selected j of
\* cos(V[i], V[j]), times the denominator of lambda.  At the first step,
\* with nothing selected, the index of highest similarity to q is picked.
MmrScore(q, V, i, selected, lambda_mult) ==
    IF selected = <<>> THEN cosine_similarity(q, V[i + 1])
    ELSE lambda_mult[1] * cosine_similarity(q, V[i + 1])
             - (lambda_mult[2] - lambda_mult[1])
                   * Max({ cosine_similarity(V[i + 1], V[selected[n] + 1]) :
                             n \in 1..Len(selected) })

\* The greedy step resolving a tie to the highest index.
RECURSIVE MmrGreedy_highest_on_tie(_, _, _, _, _)
MmrGreedy_highest_on_tie(q, V, k, lambda_mult, selected) ==
    LET remaining == (0..(Len(V) - 1)) \ { selected[n] : n \in 1..Len(selected) }
        score == [i \in remaining |-> MmrScore(q, V, i, selected, lambda_mult)]
        best == CHOOSE i \in remaining :
                    \A j \in remaining :
                        score[i] > score[j] \/ (score[i] = score[j] /\ i >= j)
    IN  IF Len(selected) >= k \/ remaining = {} THEN selected
        ELSE MmrGreedy_highest_on_tie(q, V, k, lambda_mult, Append(selected, best))

\* The greedy step always taking the lowest remaining index.
RECURSIVE MmrGreedy_lowest_index(_, _, _, _, _)
MmrGreedy_lowest_index(q, V, k, lambda_mult, selected) ==
    LET remaining == (0..(Len(V) - 1)) \ { selected[n] : n \in 1..Len(selected) }
        best == CHOOSE i \in remaining : \A j \in remaining : i <= j
    IN  IF Len(selected) >= k \/ remaining = {} THEN selected
        ELSE MmrGreedy_lowest_index(q, V, k, lambda_mult, Append(selected, best))

\* The greedy step appending the best index to selected twice.
RECURSIVE MmrGreedy_takes_neighbour(_, _, _, _, _)
MmrGreedy_takes_neighbour(q, V, k, lambda_mult, selected) ==
    LET remaining == (0..(Len(V) - 1)) \ { selected[n] : n \in 1..Len(selected) }
        score == [i \in remaining |-> MmrScore(q, V, i, selected, lambda_mult)]
        best == CHOOSE i \in remaining :
                    \A j \in remaining :
                        score[i] > score[j] \/ (score[i] = score[j] /\ i <= j)
    IN  IF Len(selected) >= k \/ remaining = {} THEN selected
        ELSE MmrGreedy_takes_neighbour(q, V, k, lambda_mult,
                 Append(selected, best) \o <<best>>)

\* Greedy selection: the remaining index of highest score, the lowest such
\* index on a tie, until k are chosen or none remains.
RECURSIVE MmrGreedy(_, _, _, _, _)
MmrGreedy(q, V, k, lambda_mult, selected) ==
    LET remaining == (0..(Len(V) - 1)) \ { selected[n] : n \in 1..Len(selected) }
        score == [i \in remaining |-> MmrScore(q, V, i, selected, lambda_mult)]
        best == CHOOSE i \in remaining :
                    \A j \in remaining :
                        score[i] > score[j] \/ (score[i] = score[j] /\ i <= j)
    IN  IF Len(selected) >= k \/ remaining = {} THEN selected
        ELSE MmrGreedy(q, V, k, lambda_mult, Append(selected, best))

maximal_marginal_relevance(query_embedding, embedding_list, k, lambda_mult) ==
    MmrGreedy(query_embedding, embedding_list, k, lambda_mult, <<>>)

\* What a caller receives from the selector: the indices chosen, or, from
\* position no_further_from on, the index -1 that signals "no further
\* candidate" (no_further_from = 0: never).
NoFurther(chosen, no_further_from) ==
    [n \in 1..Len(chosen) |->
        IF no_further_from > 0 /\ n >= no_further_from THEN 0 - 1 ELSE chosen[n]]

SelectorAnswer(query_embedding, embedding_list, k, lambda_mult, no_further_from) ==
    NoFurther(maximal_marginal_relevance(query_embedding, embedding_list,
                                         k, lambda_mult),
              no_further_from)

\* One element of the docs comprehension of the reorder helpers: d is the
\* document and score of the row, to which its vector is added.
WithVector(d, result) ==
    IF d.raised # None THEN d
    ELSE IF FIELDS_CONTENT_VECTOR \notin DOMAIN result
    THEN [raised |-> "KeyError", item |-> <<>>]
    ELSE [raised |-> None,
          item |-> <<d.item[1], d.item[2], result[FIELDS_CONTENT_VECTOR]>>]

DocScoreVector(result) == WithVector(DocAndScore(result), result)

RECURSIVE DocScoreVectors(_)
DocScoreVectors(results) ==
    IF results = <<>> THEN [raised |-> None, value |-> <<>>]
    ELSE LET first == DocScoreVector(Head(results))
             rest == DocScoreVectors(Tail(results))
         IN  IF first.raised # None
             THEN [raised |-> first.raised, value |-> <<>>]
             ELSE IF rest.raised # None THEN rest
             ELSE [raised |-> None, value |-> <<first.item>> \o rest.value]

\* seq[x] of Python: x counts from 0, a negative x from the end.
PyIndexOk(seq, x) == 0 - Len(seq) <= x /\ x < Len(seq)
PyIndex(seq, x) == IF x >= 0 THEN seq[x + 1] ELSE seq[Len(seq) + x + 1]

\* The closing loop of the reorder helpers: for x in new_ordering, break at
\* -1, else append (documents[x], scores[x]).
RECURSIVE ReorderLoop(_, _)
ReorderLoop(new_ordering, docs) ==
    IF new_ordering = <<>> THEN [raised |-> None, value |-> <<>>]
    ELSE LET x == Head(new_ordering)
             rest == ReorderLoop(Tail(new_ordering), docs)
         IN  IF x = 0 - 1 THEN [raised |-> None, value |-> <<>>]
             ELSE IF ~PyIndexOk(docs, x)
             THEN [raised |-> "IndexError", value |-> <<>>]
             ELSE IF rest.raised # None THEN rest
             ELSE [raised |-> None,
                   value |-> << <<PyIndex(docs, x)[1], PyIndex(docs, x)[2]>> >>
                                 \o rest.value]

\* The helper from `if not docs` on; docs is the comprehension's outcome.
ReorderDocs(docs, query_embedding, lambda_mult, k, no_further_from) ==
    IF docs.raised # None THEN [raised |-> docs.raised, value |-> <<>>]
    ELSE IF docs.value = <<>> THEN [raised |-> None, value |-> <<>>]
    ELSE ReorderLoop(
             SelectorAnswer(query_embedding,
                            [n \in 1..Len(docs.value) |-> docs.value[n][3]],
                            k, lambda_mult, no_further_from),
             docs.value)

_reorder_results_with_maximal_marginal_relevance(results, query_embedding, lambda_mult, k, no_further_from) ==
    ReorderDocs(DocScoreVectors(results), query_embedding, lambda_mult, k,
                no_further_from)

\* The async helper after its comprehension.  It has no test for an empty
\* docs list: documents, scores, vectors = map(list, zip(*docs)) has nothing
\* to unpack then.
AReorderDocs(docs, query_embedding, lambda_mult, k, no_further_from) ==
    IF docs.raised # None THEN [raised |-> docs.raised, value |-> <<>>]
    ELSE IF docs.value = <<>> THEN [raised |-> "ValueError", value |-> <<>>]
    ELSE ReorderLoop(
             SelectorAnswer(query_embedding,
                            [n \in 1..Len(docs.value) |-> docs.value[n][3]],
                            k, lambda_mult, no_further_from),
             docs.value)

_areorder_results_with_maximal_marginal_relevance(results, query_embedding, lambda_mult, k, no_further_from) ==
    AReorderDocs(DocScoreVectors(results), query_embedding, lambda_mult, k,
                 no_further_from)

WithCalls(r, calls) == [raised |-> r.raised, value |-> r.value, calls |-> calls]

\* The four MMR searches.  embedding is what the embedding function returns
\* for the query; response.rows the rows of the fetch_k request.
max_marginal_relevance_search_with_score(query, embedding, k, fetch_k, lambda_mult, kwargs, response, no_further_from) ==
    LET filters == get(kwargs, "filters", None)
        calls == << EmbedCall("embed_query", query),
                    _simple_search("", fetch_k, filters, Without(kwargs, {"filters"})) >>
    IN  WithCalls(_reorder_results_with_maximal_marginal_relevance( response.rows, embedding, lambda_mult, k, no_further_from),
                  calls)

amax_marginal_relevance_search_with_score(query, embedding, k, fetch_k, lambda_mult, kwargs, response, no_further_from) ==
    LET filters == get(kwargs, "filters", None)
        calls == << EmbedCall("_aembed_query", query),
                    _asimple_search("", fetch_k, filters, Without(kwargs, {"filters"})) >>
    IN  WithCalls(_areorder_results_with_maximal_marginal_relevance( response.rows, embedding, lambda_mult, k, no_further_from),
                  calls)

hybrid_max_marginal_relevance_search_with_score(query, embedding, k, fetch_k, lambda_mult, kwargs, response, no_further_from) ==
    LET filters == get(kwargs, "filters", None)
        calls == << EmbedCall("embed_query", query),
                    _simple_search(query, fetch_k, filters,
                                   Without(kwargs, {"filters"})) >>
    IN  WithCalls(_reorder_results_with_maximal_marginal_relevance( response.rows, embedding, lambda_mult, k, no_further_from),
                  calls)

ahybrid_max_marginal_relevance_search_with_score(query, embedding, k, fetch_k, lambda_mult, kwargs, response, no_further_from) ==
    LET filters == get(kwargs, "filters", None)
        calls == << EmbedCall("_aembed_query", query),
                    _asimple_search(query, fetch_k, filters,
                                    Without(kwargs, {"filters"})) >>
    IN  WithCalls(_areorder_results_with_maximal_marginal_relevance( response.rows, embedding, lambda_mult, k, no_further_from),
                  calls)

(***************************************************************************)
(* azure_cosmos_db_mongo_vcore.py: the result loop of                      *)
(* _similarity_search_with_score and max_marginal_relevance_search_by_     *)
(* vector.  A cursor row is {"similarityScore": s, "document": d}, d a     *)
(* dict with _id, textContent, vectorContent and, when stored, metadata.   *)
(***************************************************************************)
CursorRow(score, document) ==
    ("similarityScore" :> score) @@ ("document" :> document)

RECURSIVE CursorToDocs(_, _, _)
CursorToDocs(cursor, score_threshold_arg, with_embedding) ==
    IF cursor = <<>> THEN <<>>
    ELSE LET res == Head(cursor)
             score == res["similarityScore"]
             document_object_field == res["document"]
             metadata == ("_id" :> document_object_field["_id"])
                            @@ get(document_object_field, "metadata", EmptyDict)
             with_vector ==
                 IF with_embedding
                 THEN ("vectorContent" :> document_object_field["vectorContent"])
                          @@ metadata
                 ELSE metadata
             rest == CursorToDocs(Tail(cursor), score_threshold_arg, with_embedding)
         IN  IF score < score_threshold_arg THEN rest
             ELSE << <<Document(document_object_field["textContent"], with_vector),
                       score>> >> \o rest

\* mmr_docs = [docs[i][0] for i in mmr_doc_indexes]
MmrDocs(docs, mmr_doc_indexes) ==
    IF \E n \in 1..Len(mmr_doc_indexes) : ~PyIndexOk(docs, mmr_doc_indexes[n])
    THEN [raised |-> "IndexError", value |-> <<>>]
    ELSE [raised |-> None,
          value |-> [n \in 1..Len(mmr_doc_indexes) |->
                        PyIndex(docs, mmr_doc_indexes[n])[1]]]

\* The method after its search; docs is what _similarity_search_with_score
\* returned.
MmrOverDocs(docs, embedding, k, lambda_mult, no_further_from) ==
    IF \E n \in 1..Len(docs) : "vectorContent" \notin DOMAIN docs[n][1].metadata
    THEN [raised |-> "KeyError", value |-> <<>>]
    ELSE MmrDocs(docs,
                 SelectorAnswer(embedding,
                                [n \in 1..Len(docs) |->
                                    docs[n][1].metadata["vectorContent"]],
                                k, lambda_mult, no_further_from))

Mongo_max_marginal_relevance_search_by_vector(embedding, k, lambda_mult, score_threshold_arg, with_embedding, cursor, no_further_from) ==
    MmrOverDocs(CursorToDocs(cursor, score_threshold_arg, with_embedding),
                embedding, k, lambda_mult, no_further_from)

(***************************************************************************)
(* SpecMmr: the MMR selector and its callers applied to one set of         *)
(* arguments: the query's embedding, the candidates the backend returns,   *)
(* k, lambda and the position from which the selector has no further       *)
(* candidate.                                                              *)
(***************************************************************************)
MaxCandidates == 3  \* candidates the fetch returns at most
MaxK == 3           \* k at most
DefaultFetchK == 20 \* fetch_k: int = 20

VecCatalogue == << <<10, 0>>, <<9, 1>>, <<0, 10>>, <<0, 0>> >>
VecIds == << "a", "b", "c", "d" >>

QueryEmbeddings == { <<10, 0>>, <<0, 10>>, <<0, 0>> }
Lambdas == { <<0, 1>>, <<1, 2>>, <<1, 1>> }
CandidateLists == UNION { [1..n -> 1..Len(VecCatalogue)] : n \in 0..MaxCandidates }
NoFurtherFrom == {0, 1, 2}

\* The Azure Search row and the Mongo cursor row of catalogue vector i.
MmrRow(i) ==
    (FIELDS_ID :> VecIds[i]) @@ (FIELDS_CONTENT :> VecIds[i])
        @@ (FIELDS_CONTENT_VECTOR :> VecCatalogue[i])
        @@ (FIELDS_METADATA :> JsonText("source" :> "s"))
        @@ ("@search.score" :> 10 - i)

MongoCursorRow(i) ==
    CursorRow(10 - i,
              ("_id" :> VecIds[i]) @@ ("textContent" :> VecIds[i])
                  @@ ("vectorContent" :> VecCatalogue[i])
                  @@ ("metadata" :> ("source" :> "s")))

MmrResponse(candidates) ==
    [rows |-> [n \in 1..Len(candidates) |-> MmrRow(candidates[n])],
     answers |-> <<>>]

MmrCursor(candidates) ==
    [n \in 1..Len(candidates) |-> MongoCursorRow(candidates[n])]

CandidateVectors(candidates) ==
    [n \in 1..Len(candidates) |-> VecCatalogue[candidates[n]]]

MmrArguments(q, candidates, k, lambda_mult, no_further_from) ==
    [op |-> "init", query_embedding |-> q, candidates |-> candidates, k |-> k,
     lambda_mult |-> lambda_mult, no_further_from |-> no_further_from,
     with_embedding |-> FALSE, raised |-> None, value |-> <<>>]

MmrDone(op, with_embedding, result) ==
    call' = [call EXCEPT !.op = op, !.with_embedding = with_embedding,
                         !.raised = result.raised, !.value = result.value]

Call_maximal_marginal_relevance ==
    /\ MmrDone("maximal_marginal_relevance", FALSE,
               [raised |-> None,
                value |-> maximal_marginal_relevance(
                              call.query_embedding, CandidateVectors(call.candidates),
                              call.k, call.lambda_mult)])
    /\ UNCHANGED <<cacheVars, concVars, search_type>>

Call_max_marginal_relevance_search_with_score ==
    /\ MmrDone("max_marginal_relevance_search_with_score", FALSE,
               max_marginal_relevance_search_with_score(
                   "q", call.query_embedding, call.k, DefaultFetchK, call.lambda_mult,
                   EmptyDict, MmrResponse(call.candidates), call.no_further_from))
    /\ UNCHANGED <<cacheVars, concVars, search_type>>

Call_amax_marginal_relevance_search_with_score ==
    /\ MmrDone("amax_marginal_relevance_search_with_score", FALSE,
               amax_marginal_relevance_search_with_score(
                   "q", call.query_embedding, call.k, DefaultFetchK, call.lambda_mult,
                   EmptyDict, MmrResponse(call.candidates), call.no_further_from))
    /\ UNCHANGED <<cacheVars, concVars, search_type>>

Call_hybrid_max_marginal_relevance_search_with_score ==
    /\ MmrDone("hybrid_max_marginal_relevance_search_with_score", FALSE,
               hybrid_max_marginal_relevance_search_with_score(
                   "q", call.query_embedding, call.k, DefaultFetchK, call.lambda_mult,
                   EmptyDict, MmrResponse(call.candidates), call.no_further_from))
    /\ UNCHANGED <<cacheVars, concVars, search_type>>

Call_ahybrid_max_marginal_relevance_search_with_score ==
    /\ MmrDone("ahybrid_max_marginal_relevance_search_with_score", FALSE,
               ahybrid_max_marginal_relevance_search_with_score(
                   "q", call.query_embedding, call.k, DefaultFetchK, call.lambda_mult,
                   EmptyDict, MmrResponse(call.candidates), call.no_further_from))
    /\ UNCHANGED <<cacheVars, concVars, search_type>>

Call_Mongo_max_marginal_relevance_search_by_vector(with_embedding) ==
    /\ MmrDone("Mongo_max_marginal_relevance_search_by_vector", with_embedding,
               Mongo_max_marginal_relevance_search_by_vector(
                   call.query_embedding, call.k, call.lambda_mult, 0, with_embedding,
                   MmrCursor(call.candidates), call.no_further_from))
    /\ UNCHANGED <<cacheVars, concVars, search_type>>

\* The callers are tried with one query embedding and two values of lambda;
\* the selector itself, under SpecSelector, with all of them.
InitMmr ==
    /\ CacheIdle
    /\ ConcIdle
    /\ search_type = "hybrid"
    /\ call \in { MmrArguments(<<10, 0>>, c, k, l, n) :
                      c \in CandidateLists, k \in 0..MaxK,
                      l \in { <<1, 2>>, <<1, 1>> }, n \in NoFurtherFrom }

NextMmr ==
    \/ Call_max_marginal_relevance_search_with_score
    \/ Call_amax_marginal_relevance_search_with_score
    \/ Call_hybrid_max_marginal_relevance_search_with_score
    \/ Call_ahybrid_max_marginal_relevance_search_with_score
    \/ \E w \in BOOLEAN : Call_Mongo_max_marginal_relevance_search_by_vector(w)

SpecMmr == InitMmr /\ [][NextMmr]_vars

InitSelector ==
    /\ CacheIdle
    /\ ConcIdle
    /\ search_type = "hybrid"
    /\ call \in { MmrArguments(q, c, k, l, 0) :
                      q \in QueryEmbeddings, c \in CandidateLists, k \in 0..MaxK,
                      l \in Lambdas }

NextSelector == Call_maximal_marginal_relevance

SpecSelector == InitSelector /\ [][NextSelector]_vars

(***************************************************************************)
(* Properties of MMR, checked under SpecMmr.                               *)
(***************************************************************************)
AzureMmrOps == { "max_marginal_relevance_search_with_score",
                 "amax_marginal_relevance_search_with_score",
                 "hybrid_max_marginal_relevance_search_with_score",
                 "ahybrid_max_marginal_relevance_search_with_score" }

\* C11: an MMR search, sync or async, vector or hybrid, whose fetch returns
\* no row returns the empty list and raises nothing.
C11_EmptyFetchIsEmptyResult ==
    (call.op \in AzureMmrOps /\ call.candidates = <<>>)
        => (call.raised = None /\ call.value = <<>>)

\* The indices the selector chose for the call, before any "no further
\* candidate" signal.
ChosenFor(c) ==
    maximal_marginal_relevance(c.query_embedding, CandidateVectors(c.candidates),
                               c.k, c.lambda_mult)

\* The id of the n-th document a caller returned.
ReturnedId(c, n) ==
    IF c.op \in AzureMmrOps THEN c.value[n][1].metadata["id"]
    ELSE c.value[n].metadata["_id"]

\* C15: each caller of the selector (the sync and async reorder helpers of
\* Azure Search, max_marginal_relevance_search_by_vector of Mongo vCore) that
\* receives the index -1 stops there: it returns the documents of the
\* indices before the first -1, in order, and nothing for the -1.
C15_SentinelStopsMapping ==
    (/\ call.op \in AzureMmrOps \cup {"Mongo_max_marginal_relevance_search_by_vector"}
     /\ call.op \notin AzureMmrOps => call.with_embedding
     /\ call.no_further_from > 0
     /\ call.no_further_from <= Len(ChosenFor(call)))
        => /\ call.raised = None
           /\ Len(call.value) = call.no_further_from - 1
           /\ \A n \in 1..(call.no_further_from - 1) :
                  ReturnedId(call, n) = VecIds[call.candidates[ChosenFor(call)[n] + 1]]

\* C23: the Mongo vCore MMR search called with its other arguments at their
\* defaults (with_embedding False) returns min(k, number fetched) documents,
\* each made from one of the fetched candidates.
C23_MongoMmrWithDefaults ==
    (/\ call.op = "Mongo_max_marginal_relevance_search_by_vector"
     /\ ~call.with_embedding
     /\ call.no_further_from = 0)
        => /\ call.raised = None
           /\ Len(call.value)
                  = (IF call.k <= Len(call.candidates) THEN call.k
                     ELSE Len(call.candidates))
           /\ \A n \in 1..Len(call.value) :
                 \E m \in 1..Len(call.candidates) :
                     call.value[n].page_content = VecIds[call.candidates[m]]

(***************************************************************************)
(* Properties of the selector, checked under SpecSelector.                 *)
(***************************************************************************)
C16_Scenario ==
    /\ call.op = "maximal_marginal_relevance"
    /\ CandidateVectors(call.candidates) = << <<10, 0>>, <<9, 1>>, <<0, 10>> >>
    /\ call.query_embedding = <<10, 0>>
    /\ call.k = 2
    /\ call.lambda_mult = <<1, 2>>

\* C16: for V = [[1,0],[0.9,0.1],[0,1]], q = [1,0], k = 2, lambda = 0.5 the
\* selector returns [0, 2].
C16_ScenarioSelectsZeroTwo ==
    C16_Scenario => call.value = <<0, 2>>

\* C16 as amended: for these arguments the selector returns [0, 1]; at the
\* second step indices 1 and 2 both score 0 (0.5 cos(q,V1) - 0.5 cos(V1,V0)
\* with q = V0, and 0.5 * 0 - 0.5 * 0) and the tie goes to the lowest index.
C16_ScenarioSelectsZeroOne ==
    C16_Scenario => call.value = <<0, 1>>

C16_Witness ==
    C16_Scenario /\ call.value = <<0, 1>>

\* C17: the selector returns pairwise distinct indices in 0..N-1, min(k, N)
\* of them: none for N = 0, all N of them for k >= N.
C17_DistinctIndices ==
    call.op = "maximal_marginal_relevance" =>
        LET N == Len(call.candidates)
            r == call.value
        IN  /\ Len(r) = (IF call.k < N THEN call.k ELSE N)
            /\ \A n \in 1..Len(r) : r[n] \in 0..(N - 1)
            /\ \A n, m \in 1..Len(r) : n # m => r[n] # r[m]
            /\ call.k >= N => { r[n] : n \in 1..Len(r) } = 0..(N - 1)

C17_Witness ==
    /\ call.op = "maximal_marginal_relevance"
    /\ Len(call.candidates) = 3
    /\ call.k = 3
    /\ call.lambda_mult = <<1, 2>>
    /\ { call.value[n] : n \in 1..Len(call.value) } = {0, 1, 2}
    /\ call.value # <<0, 1, 2>>

\* Plain top-k by cosine similarity to the query: indices by falling
\* similarity, equal similarities by rising index.
TopKByCosine(q, V, k) ==
    LET N == Len(V)
        before(i) == { j \in 0..(N - 1) :
                         \/ cosine_similarity(q, V[j + 1]) > cosine_similarity(q, V[i + 1])
                         \/ /\ cosine_similarity(q, V[j + 1]) = cosine_similarity(q, V[i + 1])
                            /\ j < i }
    IN  [n \in 1..(IF k < N THEN k ELSE N) |->
            CHOOSE i \in 0..(N - 1) : Cardinality(before(i)) = n - 1]

\* C18: with lambda = 1 the selector returns the ordering of plain top-k by
\* cosine similarity to the query, ties to the lowest index.
C18_LambdaOneIsTopK ==
    (call.op = "maximal_marginal_relevance" /\ call.lambda_mult = <<1, 1>>)
        => call.value = TopKByCosine(call.query_embedding,
                                     CandidateVectors(call.candidates), call.k)

C18_Witness ==
    /\ call.op = "maximal_marginal_relevance"
    /\ call.lambda_mult = <<1, 1>>
    /\ call.query_embedding = <<0, 10>>
    /\ call.candidates = <<1, 3, 2>>
    /\ call.k = 2
    /\ call.value = <<1, 2>>

(***************************************************************************)
(* AzureSearch (azuresearch.py): add_embeddings and aadd_embeddings.       *)
(*                                                                         *)
(* A text is the integer of its position in the input, its embedding a     *)
(* one-component vector.  The backend is the set of texts it reports as    *)
(* failed.  An upload operation is an operator from its arguments and the  *)
(* backend to [raised, value, calls]: calls is the sequence of upload      *)
(* requests submitted, each the list of documents it carried; value is the *)
(* returned ids, or the argument of the exception raised.                  *)
(***************************************************************************)
MAX_UPLOAD_BATCH_SIZE == 1000

MaxFullBatches == 2     \* inputs of up to this many full batches, and one more

\* base64.urlsafe_b64encode(bytes(key, "utf-8")).decode("ascii")
b64(key) == <<"b64", key>>

\* str(uuid.uuid4()) for the document at position i: a fresh value
uuid4(i) == <<"uuid4", i>>

CallerKey(i) == <<"key", i>>

TextEmbeddings(n) == [i \in 1..n |-> <<i, <<i % 2>>>>]
CallerKeys(n) == [i \in 1..n |-> CallerKey(i)]

\* `if keys:` is false for None and for the empty list; keys = None is
\* written as the empty list
Truthy(keys) == keys # <<>>

add_embeddings_key(keys, i) ==
    IF Truthy(keys) THEN keys[i] ELSE b64(uuid4(i))

aadd_embeddings_key(keys, i) ==
    b64(IF Truthy(keys) THEN keys[i] ELSE uuid4(i))

\* the doc dict of one input, no metadatas given: json.dumps({})
UploadDoc(key, text_embedding) ==
    ("@search.action" :> "upload")
        @@ (FIELDS_ID :> key)
        @@ (FIELDS_CONTENT :> text_embedding[1])
        @@ (FIELDS_CONTENT_VECTOR :> text_embedding[2])
        @@ (FIELDS_METADATA :> JsonText(EmptyDict))

\* client.upload_documents(documents=data): one result per document
upload_documents(documents, rejected) ==
    [j \in 1..Len(documents) |->
        [key |-> documents[j][FIELDS_ID],
         succeeded |-> documents[j][FIELDS_CONTENT] \notin rejected]]

all_succeeded(response) ==
    \A j \in 1..Len(response) : response[j].succeeded

RaisedWith(error, argument, calls) ==
    [raised |-> error, value |-> argument, calls |-> calls]

DocIds(docs) == [j \in 1..Len(docs) |-> docs[j][FIELDS_ID]]

\* The loop that goes on after a batch the backend reported failed, and
\* raises for the last report only.
RECURSIVE UploadLoop_reports_at_end(_, _, _, _)
UploadLoop_reports_at_end(docs, i, calls, rejected) ==
    LET upto == IF i + MAX_UPLOAD_BATCH_SIZE - 1 <= Len(docs)
                THEN i + MAX_UPLOAD_BATCH_SIZE - 1 ELSE Len(docs)
        data == SubSeq(docs, i, upto)
        response == upload_documents(data, rejected)
    IN  IF Len(data) = MAX_UPLOAD_BATCH_SIZE
        THEN UploadLoop_reports_at_end(docs, upto + 1, Append(calls, data), rejected)
        ELSE IF Len(data) = 0
        THEN Returned(DocIds(docs), calls)
        ELSE IF all_succeeded(response)
        THEN Returned(DocIds(docs), Append(calls, data))
        ELSE RaisedWith("LangChainException", response, Append(calls, data))

\* The loop without the test for an empty remainder.
RECURSIVE UploadLoop_uploads_remainder_always(_, _, _, _)
UploadLoop_uploads_remainder_always(docs, i, calls, rejected) ==
    LET upto == IF i + MAX_UPLOAD_BATCH_SIZE - 1 <= Len(docs)
                THEN i + MAX_UPLOAD_BATCH_SIZE - 1 ELSE Len(docs)
        data == SubSeq(docs, i, upto)
        response == upload_documents(data, rejected)
    IN  IF Len(data) = MAX_UPLOAD_BATCH_SIZE
        THEN IF ~all_succeeded(response)
             THEN RaisedWith("LangChainException", response, Append(calls, data))
             ELSE UploadLoop_uploads_remainder_always(
                      docs, upto + 1, Append(calls, data), rejected)
        ELSE IF all_succeeded(response)
        THEN Returned(DocIds(docs), Append(calls, data))
        ELSE RaisedWith("LangChainException", response, Append(calls, data))

\* The loop over the inputs from position i on, data being empty there:
\* the documents up to the next upload are appended to data; at
\* MAX_UPLOAD_BATCH_SIZE they are uploaded and data is reset; after the
\* last input a non-empty data is uploaded.
RECURSIVE UploadLoop(_, _, _, _)
UploadLoop(docs, i, calls, rejected) ==
    LET upto == IF i + MAX_UPLOAD_BATCH_SIZE - 1 <= Len(docs)
                THEN i + MAX_UPLOAD_BATCH_SIZE - 1 ELSE Len(docs)
        data == SubSeq(docs, i, upto)
        response == upload_documents(data, rejected)
    IN  IF Len(data) = MAX_UPLOAD_BATCH_SIZE
        THEN IF ~all_succeeded(response)
             THEN RaisedWith("LangChainException", response, Append(calls, data))
             ELSE UploadLoop(docs, upto + 1, Append(calls, data), rejected)
        ELSE IF Len(data) = 0
        THEN Returned(DocIds(docs), calls)
        ELSE IF all_succeeded(response)
        THEN Returned(DocIds(docs), Append(calls, data))
        ELSE RaisedWith("LangChainException", response, Append(calls, data))

add_embeddings(text_embeddings, keys, rejected) ==
    UploadLoop([i \in 1..Len(text_embeddings) |->
                   UploadDoc(add_embeddings_key(keys, i), text_embeddings[i])],
               1, <<>>, rejected)

aadd_embeddings(text_embeddings, keys, rejected) ==
    UploadLoop([i \in 1..Len(text_embeddings) |->
                   UploadDoc(aadd_embeddings_key(keys, i), text_embeddings[i])],
               1, <<>>, rejected)

Texts(n) == [i \in 1..n |-> i]

\* embedding_function.embed_documents(list(texts))
embed_documents(texts) == [i \in 1..Len(texts) |-> <<texts[i] % 2>>]

\* zip(texts, embeddings)
Zip(texts, embeddings) == [i \in 1..Len(texts) |-> <<texts[i], embeddings[i]>>]

\* if (not keys) and ("ids" in kwargs) and (len(kwargs["ids"]) == len(embeddings)):
\*     keys = kwargs["ids"]
KeysOrIds(keys, kwargs, embeddings) ==
    IF ~Truthy(keys) /\ "ids" \in DOMAIN kwargs
           /\ Len(kwargs["ids"]) = Len(embeddings)
    THEN kwargs["ids"]
    ELSE keys

\* add_texts: nothing to insert for no embeddings, else add_embeddings
\* under the keys, or under the ids of kwargs when no keys are given
add_texts(texts, keys, kwargs, rejected) ==
    IF Len(embed_documents(texts)) = 0 THEN Returned(<<>>, <<>>)
    ELSE add_embeddings(Zip(texts, embed_documents(texts)),
                        KeysOrIds(keys, kwargs, embed_documents(texts)), rejected)

aadd_texts(texts, keys, kwargs, rejected) ==
    IF Len(embed_documents(texts)) = 0 THEN Returned(<<>>, <<>>)
    ELSE aadd_embeddings(Zip(texts, embed_documents(texts)),
                         KeysOrIds(keys, kwargs, embed_documents(texts)), rejected)

\* The store a from_* classmethod returns once its ingestion r returned.
StoreAfter(r) ==
    IF r.raised # None THEN r ELSE [r EXCEPT !.value = "AzureSearch"]

\* from_texts: the store is constructed, add_texts is called on it with the
\* keyword arguments and the store is returned.
from_texts(texts, keys, kwargs, rejected) ==
    StoreAfter(add_texts(texts, keys, kwargs, rejected))

afrom_texts(texts, keys, kwargs, rejected) ==
    StoreAfter(aadd_texts(texts, keys, kwargs, rejected))

\* _peek(iterable): the first element, None when there is none
_peek_is_none(iterable) == Len(iterable) = 0

from_embeddings(text_embeddings, keys, rejected) ==
    IF _peek_is_none(text_embeddings)
    THEN RaisedWith("ValueError", "Cannot create AzureSearch from empty embeddings.", <<>>)
    ELSE StoreAfter(add_embeddings(text_embeddings, keys, rejected))

afrom_embeddings(text_embeddings, keys, rejected) ==
    IF _peek_is_none(text_embeddings)
    THEN RaisedWith("ValueError", "Cannot create AzureSearch from empty embeddings.", <<>>)
    ELSE StoreAfter(aadd_embeddings(text_embeddings, keys, rejected))

(***************************************************************************)
(* SpecUpload: one upload call; Init draws the input length, whether keys  *)
(* are given, the ids keyword (left out, one id per input, or one id too   *)
(* many) and the text the backend rejects (0: none).                       *)
(***************************************************************************)
UploadSizes ==
    {0, 1} \cup UNION { { b * MAX_UPLOAD_BATCH_SIZE - 1, b * MAX_UPLOAD_BATCH_SIZE,
                          b * MAX_UPLOAD_BATCH_SIZE + 1 } : b \in 1..MaxFullBatches }

RejectedTexts ==
    {0, 1, 500} \cup UNION { { b * MAX_UPLOAD_BATCH_SIZE, b * MAX_UPLOAD_BATCH_SIZE + 1 } :
                               b \in 1..MaxFullBatches }

GivenIds == {"absent", "matching", "longer"}

CallerIds(n) == [i \in 1..n |-> <<"id", i>>]

UploadArguments(n, keys_given, ids, failing) ==
    [op |-> "init", n |-> n, keys_given |-> keys_given, ids |-> ids,
     failing |-> failing, raised |-> None, value |-> <<>>, calls |-> <<>>]

UploadKwargs(c) ==
    CASE c.ids = "absent" -> EmptyDict
      [] c.ids = "matching" -> ("ids" :> CallerIds(c.n))
      [] c.ids = "longer" -> ("ids" :> CallerIds(c.n + 1))

UploadKeys(c) == IF c.keys_given THEN CallerKeys(c.n) ELSE <<>>

UploadDone(op, result) ==
    call' = [call EXCEPT !.op = op, !.raised = result.raised,
                         !.value = result.value, !.calls = result.calls]

Call_add_embeddings ==
    /\ call.op = "init"
    /\ UploadDone("add_embeddings",
                  add_embeddings(TextEmbeddings(call.n), UploadKeys(call),
                                 {call.failing}))
    /\ UNCHANGED <<cacheVars, concVars, search_type>>

Call_aadd_embeddings ==
    /\ call.op = "init"
    /\ UploadDone("aadd_embeddings",
                  aadd_embeddings(TextEmbeddings(call.n), UploadKeys(call),
                                  {call.failing}))
    /\ UNCHANGED <<cacheVars, concVars, search_type>>

Call_from_texts ==
    /\ call.op = "init"
    /\ UploadDone("from_texts",
                  from_texts(Texts(call.n), UploadKeys(call), UploadKwargs(call),
                             {call.failing}))
    /\ UNCHANGED <<cacheVars, concVars, search_type>>

Call_afrom_texts ==
    /\ call.op = "init"
    /\ UploadDone("afrom_texts",
                  afrom_texts(Texts(call.n), UploadKeys(call), UploadKwargs(call),
                              {call.failing}))
    /\ UNCHANGED <<cacheVars, concVars, search_type>>

Call_from_embeddings ==
    /\ call.op = "init"
    /\ UploadDone("from_embeddings",
                  from_embeddings(TextEmbeddings(call.n), UploadKeys(call),
                                  {call.failing}))
    /\ UNCHANGED <<cacheVars, concVars, search_type>>

Call_afrom_embeddings ==
    /\ call.op = "init"
    /\ UploadDone("afrom_embeddings",
                  afrom_embeddings(TextEmbeddings(call.n), UploadKeys(call),
                                   {call.failing}))
    /\ UNCHANGED <<cacheVars, concVars, search_type>>

InitUpload ==
    /\ CacheIdle
    /\ ConcIdle
    /\ search_type = "hybrid"
    /\ call \in UNION { { UploadArguments(n, g, ids, f) :
                              g \in BOOLEAN, ids \in GivenIds,
                              f \in { x \in RejectedTexts : x <= n } } :
                            n \in UploadSizes }

NextUpload ==
    \/ Call_add_embeddings
    \/ Call_aadd_embeddings
    \/ Call_from_texts
    \/ Call_afrom_texts
    \/ Call_from_embeddings
    \/ Call_afrom_embeddings

SpecUpload == InitUpload /\ [][NextUpload]_vars

(***************************************************************************)
(* Properties of the uploads, checked under SpecUpload.                    *)
(***************************************************************************)
UploadOps == { "add_embeddings", "aadd_embeddings" }

BatchOf(position) == (position - 1) \div MAX_UPLOAD_BATCH_SIZE + 1

RECURSIVE Concatenation(_)
Concatenation(batches) ==
    IF batches = <<>> THEN <<>>
    ELSE Head(batches) \o Concatenation(Tail(batches))

\* C12: when the backend reports a document of a batch failed, the call
\* raises with the per-document report of that batch, the failing batch is
\* the last request submitted, and no ids are returned.
C12_FailedBatchStopsUpload ==
    (call.op \in UploadOps /\ call.failing \in 1..call.n)
        => /\ call.raised = "LangChainException"
           /\ Len(call.calls) = BatchOf(call.failing)
           /\ LET batch == call.calls[Len(call.calls)]
              IN  /\ Len(call.value) = Len(batch)
                  /\ \A j \in 1..Len(batch) :
                        /\ call.value[j].key = batch[j][FIELDS_ID]
                        /\ call.value[j].succeeded
                               <=> batch[j][FIELDS_CONTENT] # call.failing

C12_Witness ==
    /\ call.op \in UploadOps
    /\ call.n > MAX_UPLOAD_BATCH_SIZE
    /\ call.failing = 500
    /\ call.raised = "LangChainException"
    /\ Len(call.calls) = 1

\* C13: every upload request carries 1..1000 documents; when nothing fails
\* the uploaded batches, concatenated, are the inputs in input order, each
\* once, and the returned ids are the uploaded ids, one per input in order.
C13_BatchesPartitionInput ==
    call.op \in UploadOps
        => /\ \A b \in 1..Len(call.calls) :
                  Len(call.calls[b]) \in 1..MAX_UPLOAD_BATCH_SIZE
           /\ call.failing = 0
                  => LET uploaded == Concatenation(call.calls)
                         inputs == TextEmbeddings(call.n)
                     IN  /\ call.raised = None
                         /\ Len(uploaded) = call.n
                         /\ Len(call.value) = call.n
                         /\ \A i \in 1..call.n :
                               /\ uploaded[i][FIELDS_CONTENT] = inputs[i][1]
                               /\ uploaded[i][FIELDS_CONTENT_VECTOR] = inputs[i][2]
                               /\ call.value[i] = uploaded[i][FIELDS_ID]

C13_Witness ==
    /\ call.op \in UploadOps
    /\ call.failing = 0
    /\ call.n = MaxFullBatches * MAX_UPLOAD_BATCH_SIZE
    /\ call.raised = None
    /\ Len(call.calls) = MaxFullBatches
    /\ Len(call.value) = call.n

\* the id fields of the documents of the upload requests, in order
UploadedIds(calls) == DocIds(Concatenation(calls))

\* C25: add_embeddings and aadd_embeddings, given the same texts,
\* embeddings and caller keys and the same backend answers, upload
\* documents of the same ids and return the same ids.
C25_SyncAsyncSameIds ==
    (call.op \in UploadOps /\ call.keys_given) =>
        LET sync == add_embeddings(TextEmbeddings(call.n), UploadKeys(call),
                                   {call.failing})
            async == aadd_embeddings(TextEmbeddings(call.n), UploadKeys(call),
                                     {call.failing})
        IN  /\ call.raised = sync.raised /\ call.raised = async.raised
            /\ UploadedIds(call.calls) = UploadedIds(sync.calls)
            /\ UploadedIds(call.calls) = UploadedIds(async.calls)
            /\ call.raised = None
                   => (call.value = sync.value /\ call.value = async.value)

FromOps == { "from_texts", "afrom_texts", "from_embeddings", "afrom_embeddings" }

\* C21: from_embeddings/afrom_embeddings with no embedding and
\* from_texts/afrom_texts with no text raise an error and return no store.
C21_EmptyInputRejected ==
    (call.op \in FromOps /\ call.n = 0) => call.raised # None

(***************************************************************************)
(* AzureSearch (azuresearch.py): the searches with a score threshold.      *)
(* kwargs holds every keyword argument of the call but k; a                *)
(* score_threshold of None is a kwargs without that key.                   *)
(***************************************************************************)
\* [r for r in result if r[1] >= score_threshold], with > for >=
RECURSIVE AtLeast_strictly_above(_, _)
AtLeast_strictly_above(result, threshold) ==
    IF result = <<>> THEN <<>>
    ELSE IF Head(result)[2] > threshold
    THEN <<Head(result)>> \o AtLeast_strictly_above(Tail(result), threshold)
    ELSE AtLeast_strictly_above(Tail(result), threshold)

\* [r for r in result if r[1] >= score_threshold]
RECURSIVE AtLeast(_, _)
AtLeast(result, threshold) ==
    IF result = <<>> THEN <<>>
    ELSE IF Head(result)[2] >= threshold
    THEN <<Head(result)>> \o AtLeast(Tail(result), threshold)
    ELSE AtLeast(Tail(result), threshold)

\* result if score_threshold is None else [r for r in result if ...]
WithRelevanceScores(r, kwargs) ==
    IF r.raised # None \/ "score_threshold" \notin DOMAIN kwargs THEN r
    ELSE [r EXCEPT !.value = AtLeast(r.value, kwargs["score_threshold"])]

similarity_search_with_relevance_scores(query, k, kwargs, response) ==
    WithRelevanceScores(
        vector_search_with_score(query, k, Without(kwargs, {"score_threshold"}),
                                 response),
        kwargs)

asimilarity_search_with_relevance_scores(query, k, kwargs, response) ==
    WithRelevanceScores(
        avector_search_with_score(query, k, Without(kwargs, {"score_threshold"}),
                                  response),
        kwargs)

hybrid_search_with_relevance_scores(query, k, kwargs, response) ==
    WithRelevanceScores(
        hybrid_search_with_score(query, k, Without(kwargs, {"score_threshold"}),
                                 response),
        kwargs)

ahybrid_search_with_relevance_scores(query, k, kwargs, response) ==
    WithRelevanceScores(
        ahybrid_search_with_score(query, k, Without(kwargs, {"score_threshold"}),
                                  response),
        kwargs)

(***************************************************************************)
(* SpecThreshold: one search with a score threshold; Init draws the        *)
(* backend's rows, the threshold and the score type.                       *)
(***************************************************************************)
MaxScoredRows == 3

ScoredRowLists ==
    { SubSeq(RowCatalogue, w[1], w[1] + w[2] - 1) :
          w \in { v \in (1..Len(RowCatalogue)) \X (0..MaxScoredRows) :
                      v[1] + v[2] - 1 <= Len(RowCatalogue) } }

\* score_threshold as the caller may give it: absent, or a number
GivenThresholds == {4, 7}

ThresholdKwargsSet ==
    {EmptyDict} \cup { "score_threshold" :> t : t \in GivenThresholds }

ScoreTypes == {"score", "reranker_score"}

ThresholdArguments(rows, kwargs, score_type) ==
    [op |-> "init", query |-> "q",
     kwargs |-> kwargs @@ ("score_type" :> score_type),
     response |-> [rows |-> rows, answers |-> <<>>],
     raised |-> None, value |-> <<>>, calls |-> <<>>]

ThresholdDone(op, result) ==
    call' = [call EXCEPT !.op = op, !.raised = result.raised,
                         !.value = result.value, !.calls = result.calls]

\* the four operations without a score_type parameter are called without it
Call_similarity_search_with_relevance_scores ==
    /\ call.op = "init"
    /\ ThresholdDone("similarity_search_with_relevance_scores",
                     similarity_search_with_relevance_scores(
                         call.query, DefaultK, Without(call.kwargs, {"score_type"}),
                         call.response))
    /\ UNCHANGED <<cacheVars, concVars, search_type>>

Call_asimilarity_search_with_relevance_scores ==
    /\ call.op = "init"
    /\ ThresholdDone("asimilarity_search_with_relevance_scores",
                     asimilarity_search_with_relevance_scores(
                         call.query, DefaultK, Without(call.kwargs, {"score_type"}),
                         call.response))
    /\ UNCHANGED <<cacheVars, concVars, search_type>>

Call_hybrid_search_with_relevance_scores ==
    /\ call.op = "init"
    /\ ThresholdDone("hybrid_search_with_relevance_scores",
                     hybrid_search_with_relevance_scores(
                         call.query, DefaultK, Without(call.kwargs, {"score_type"}),
                         call.response))
    /\ UNCHANGED <<cacheVars, concVars, search_type>>

Call_ahybrid_search_with_relevance_scores ==
    /\ call.op = "init"
    /\ ThresholdDone("ahybrid_search_with_relevance_scores",
                     ahybrid_search_with_relevance_scores(
                         call.query, DefaultK, Without(call.kwargs, {"score_type"}),
                         call.response))
    /\ UNCHANGED <<cacheVars, concVars, search_type>>

Call_semantic_hybrid_search_with_score ==
    /\ call.op = "init"
    /\ ThresholdDone("semantic_hybrid_search_with_score",
                     semantic_hybrid_search_with_score(
                         call.query, DefaultK, call.kwargs, call.response))
    /\ UNCHANGED <<cacheVars, concVars, search_type>>

Call_asemantic_hybrid_search_with_score ==
    /\ call.op = "init"
    /\ ThresholdDone("asemantic_hybrid_search_with_score",
                     asemantic_hybrid_search_with_score(
                         call.query, DefaultK, call.kwargs, call.response))
    /\ UNCHANGED <<cacheVars, concVars, search_type>>

InitThreshold ==
    /\ CacheIdle
    /\ ConcIdle
    /\ search_type = "hybrid"
    /\ call \in { ThresholdArguments(rows, kwargs, s) :
                      rows \in ScoredRowLists, kwargs \in ThresholdKwargsSet,
                      s \in ScoreTypes }

NextThreshold ==
    \/ Call_similarity_search_with_relevance_scores
    \/ Call_asimilarity_search_with_relevance_scores
    \/ Call_hybrid_search_with_relevance_scores
    \/ Call_ahybrid_search_with_relevance_scores
    \/ Call_semantic_hybrid_search_with_score
    \/ Call_asemantic_hybrid_search_with_score

SpecThreshold == InitThreshold /\ [][NextThreshold]_vars

(***************************************************************************)
(* Properties of the score threshold, checked under SpecThreshold.         *)
(***************************************************************************)
RelevanceOps == { "similarity_search_with_relevance_scores",
                  "asimilarity_search_with_relevance_scores",
                  "hybrid_search_with_relevance_scores",
                  "ahybrid_search_with_relevance_scores" }

SemanticScoreOps == { "semantic_hybrid_search_with_score",
                      "asemantic_hybrid_search_with_score" }

\* the field of a backend row holding the score the operation returns
ScoreField(c) ==
    IF c.op \in SemanticScoreOps /\ c.kwargs["score_type"] = "reranker_score"
    THEN "@search.reranker_score" ELSE "@search.score"

\* positions of the backend rows the threshold retains
Retained(c) ==
    { i \in 1..Len(c.response.rows) :
          "score_threshold" \in DOMAIN c.kwargs
              => c.response.rows[i][ScoreField(c)] >= c.kwargs["score_threshold"] }

\* the n-th retained position, in backend order
NthRetained(c, n) ==
    CHOOSE i \in Retained(c) : Cardinality({ j \in Retained(c) : j < i }) = n - 1

\* C14: a search with a score threshold t that returns, returns the backend
\* results of score >= t, a score equal to t included, in backend order and
\* no other; without a threshold it returns every backend result.  For the
\* vector, hybrid and semantic hybrid operations.
C14_ThresholdKeepsAtLeast ==
    (call.op \in RelevanceOps \cup SemanticScoreOps /\ call.raised = None)
        => /\ Len(call.value) = Cardinality(Retained(call))
           /\ \A n \in 1..Len(call.value) :
                 LET row == call.response.rows[NthRetained(call, n)]
                 IN  /\ call.value[n][1].page_content = row[FIELDS_CONTENT]
                     /\ call.value[n][2] = row[ScoreField(call)]

\* rows of scores 7, 5, 8 under the threshold 7: the first, of score equal
\* to the threshold, and the third are returned
C14_Witness ==
    /\ call.op \in RelevanceOps \cup SemanticScoreOps
    /\ call.raised = None
    /\ Len(call.response.rows) = 3
    /\ "score_threshold" \in DOMAIN call.kwargs
    /\ Len(call.value) = 2
    /\ call.value[1][2] = call.kwargs["score_threshold"]
    /\ call.value[2][1].page_content = call.response.rows[3][FIELDS_CONTENT]

(***************************************************************************)
(* Cosmos DB Mongo vCore (azure_cosmos_db_mongo_vcore.py, cache.py): the   *)
(* search pipeline and the index-creation command.                         *)
(*                                                                         *)
(* kwargs holds the keyword arguments the caller gives; an argument left   *)
(* out takes its default.  pre_filter = None is written as the empty dict, *)
(* both being false in `if pre_filter:`.  The oversampling factor is an    *)
(* integer.  An operation is an operator to [raised, value, calls], calls  *)
(* being the requests sent to the backend.                                 *)
(***************************************************************************)
VECTOR_IVF == "vector-ivf"
VECTOR_HNSW == "vector-hnsw"
VECTOR_DISKANN == "vector-diskann"
CosmosDBVectorSearchType == {VECTOR_IVF, VECTOR_HNSW, VECTOR_DISKANN}

PQ == "pq"
HALF == "half"
CosmosDBVectorSearchCompression == {PQ, HALF}

ProjectStage ==
    "$project" :> (("similarityScore" :> ("$meta" :> "searchScore"))
                       @@ ("document" :> "$$ROOT"))

WithFilter(params, pre_filter) ==
    IF pre_filter # EmptyDict THEN ("filter" :> pre_filter) @@ params ELSE params

_get_pipeline_vector_ivf(embeddings, k, pre_filter, oversampling) ==
    LET params == ("vector" :> embeddings) @@ ("path" :> "vectorContent")
                      @@ ("k" :> k) @@ ("oversampling" :> oversampling)
    IN  << "$search" :> (("cosmosSearch" :> WithFilter(params, pre_filter))
                             @@ ("returnStoredSource" :> TRUE)),
           ProjectStage >>

_get_pipeline_vector_hnsw(embeddings, k, ef_search, pre_filter, oversampling) ==
    LET params == ("vector" :> embeddings) @@ ("path" :> "vectorContent")
                      @@ ("k" :> k) @@ ("efSearch" :> ef_search)
                      @@ ("oversampling" :> oversampling)
    IN  << "$search" :> ("cosmosSearch" :> WithFilter(params, pre_filter)),
           ProjectStage >>

_get_pipeline_vector_diskann(embeddings, k, l_search, pre_filter, oversampling) ==
    LET params == ("vector" :> embeddings) @@ ("path" :> "vectorContent")
                      @@ ("k" :> k) @@ ("lSearch" :> l_search)
                      @@ ("oversampling" :> oversampling)
    IN  << "$search" :> ("cosmosSearch" :> WithFilter(params, pre_filter)),
           ProjectStage >>

\* The pipeline _similarity_search_with_score builds: the three builders
\* are called without oversampling, which takes their default 1.0.
SearchPipeline(embeddings, k, kind, pre_filter, ef_search, l_search, oversampling) ==
    CASE kind = VECTOR_IVF ->
             _get_pipeline_vector_ivf(embeddings, k, pre_filter, 1)
      [] kind = VECTOR_HNSW ->
             _get_pipeline_vector_hnsw(embeddings, k, ef_search, pre_filter, 1)
      [] kind = VECTOR_DISKANN ->
             _get_pipeline_vector_diskann(embeddings, k, l_search, pre_filter, 1)
      [] OTHER -> <<>>

Mongo__similarity_search_with_score(embeddings, k, kind, kwargs, cursor) ==
    LET pipeline == SearchPipeline(embeddings, k, kind,
                                   get(kwargs, "pre_filter", EmptyDict),
                                   get(kwargs, "ef_search", 40),
                                   get(kwargs, "l_search", 40),
                                   get(kwargs, "oversampling", 1))
    IN  [raised |-> None,
         value |-> CursorToDocs(cursor, get(kwargs, "score_threshold", 0),
                                get(kwargs, "with_embedding", FALSE)),
         calls |-> << [call |-> "aggregate", pipeline |-> pipeline] >>]

WithCompression(cosmos_search_options, compression) ==
    IF compression # None
    THEN ("compression" :> compression) @@ cosmos_search_options
    ELSE cosmos_search_options

IndexCommand(cosmos_search_options) ==
    ("createIndexes" :> "collection")
        @@ ("indexes" :> << ("name" :> "index")
                                @@ ("key" :> ("vectorContent" :> "cosmosSearch"))
                                @@ ("cosmosSearchOptions" :> cosmos_search_options) >>)

_get_vector_index_ivf(kind, compression) ==
    IndexCommand(WithCompression(
        ("kind" :> kind) @@ ("numLists" :> 100) @@ ("similarity" :> "COS")
            @@ ("dimensions" :> 1536),
        compression))

_get_vector_index_hnsw(kind, compression) ==
    IndexCommand(WithCompression(
        ("kind" :> kind) @@ ("m" :> 16) @@ ("efConstruction" :> 64)
            @@ ("similarity" :> "COS") @@ ("dimensions" :> 1536),
        compression))

\* pq_compressed_dims and pq_sample_size are left out: None
_get_vector_index_diskann(kind, compression) ==
    IndexCommand(WithCompression(
        ("kind" :> kind) @@ ("maxDegree" :> 32) @@ ("lBuild" :> 50)
            @@ ("similarity" :> "COS") @@ ("dimensions" :> 1536),
        compression))

\* create_index: the command of the kind, the empty dict for a kind that is
\* none of the three, is sent to the database.
create_index(kind, compression) ==
    LET create_index_commands ==
            CASE kind = VECTOR_IVF -> _get_vector_index_ivf(kind, compression)
              [] kind = VECTOR_HNSW -> _get_vector_index_hnsw(kind, compression)
              [] kind = VECTOR_DISKANN -> _get_vector_index_diskann(kind, compression)
              [] OTHER -> EmptyDict
    IN  [raised |-> None, value |-> "response",
         calls |-> << [call |-> "command", command |-> create_index_commands] >>]

\* isinstance(value, enum_type)
_validate_enum_value(value, enum_type) ==
    IF value \in enum_type THEN None ELSE "ValueError"

\* AzureCosmosDBMongoVCoreSemanticCache.__init__ with a connection string:
\* kind, and compression when one is given, are tested for being members of
\* their enumerations and stored.
MongoCache_init(kind, compression) ==
    IF _validate_enum_value(kind, CosmosDBVectorSearchType) # None
    THEN [raised |-> "ValueError", value |-> None, calls |-> <<>>]
    ELSE IF compression # None
            /\ _validate_enum_value(compression, CosmosDBVectorSearchCompression) # None
    THEN [raised |-> "ValueError", value |-> None, calls |-> <<>>]
    ELSE [raised |-> None, value |-> "cache", calls |-> <<>>]

\* _get_llm_cache of a cache so constructed, for an index name not yet in
\* the registry whose index does not exist: the store is made and
\* index_exists lists the collection's indexes, finds none of that name,
\* and create_index is called with the stored kind and compression.
MongoCache_get_llm_cache(kind, compression) ==
    [create_index(kind, compression) EXCEPT
        !.value = "vectorstore",
        !.calls = << [call |-> "list_indexes"] >> \o @]

(***************************************************************************)
(* SpecVcore: Init draws the kind, the compression and the keyword         *)
(* arguments; a search, an index creation, or the cache's construction     *)
(* followed by its first use, is applied to them.                          *)
(***************************************************************************)
GivenKinds == CosmosDBVectorSearchType \cup {"bogus"}
GivenCompressions == CosmosDBVectorSearchCompression \cup {None, "bogus"}

Optional(key, values) == {EmptyDict} \cup { key :> v : v \in values }

VcoreKwargsSet ==
    { a @@ b @@ c @@ d :
          a \in Optional("pre_filter", { "source" :> "s" }),
          b \in Optional("ef_search", {80}),
          c \in Optional("l_search", {100}),
          d \in Optional("oversampling", {2}) }

VcoreArguments(kind, compression, kwargs) ==
    [op |-> "init", kind |-> kind, compression |-> compression, kwargs |-> kwargs,
     raised |-> None, value |-> <<>>, calls |-> <<>>]

VcoreDone(op, result) ==
    call' = [call EXCEPT !.op = op, !.raised = result.raised,
                         !.value = result.value, !.calls = result.calls]

Call_Mongo__similarity_search_with_score ==
    /\ call.op = "init"
    /\ VcoreDone("_similarity_search_with_score",
                 Mongo__similarity_search_with_score(
                     <<10, 0>>, DefaultK, call.kind, call.kwargs,
                     <<MongoCursorRow(1)>>))
    /\ UNCHANGED <<cacheVars, concVars, search_type>>

Call_create_index ==
    /\ call.op = "init"
    /\ VcoreDone("create_index", create_index(call.kind, call.compression))
    /\ UNCHANGED <<cacheVars, concVars, search_type>>

Call_MongoCache_init ==
    /\ call.op = "init"
    /\ VcoreDone("__init__", MongoCache_init(call.kind, call.compression))
    /\ UNCHANGED <<cacheVars, concVars, search_type>>

Call_MongoCache_get_llm_cache ==
    /\ call.op = "__init__"
    /\ call.raised = None
    /\ VcoreDone("_get_llm_cache",
                 MongoCache_get_llm_cache(call.kind, call.compression))
    /\ UNCHANGED <<cacheVars, concVars, search_type>>

InitVcore ==
    /\ CacheIdle
    /\ ConcIdle
    /\ search_type = "hybrid"
    /\ call \in { VcoreArguments(kind, compression, kwargs) :
                      kind \in GivenKinds, compression \in GivenCompressions,
                      kwargs \in VcoreKwargsSet }

NextVcore ==
    \/ Call_Mongo__similarity_search_with_score
    \/ Call_create_index
    \/ Call_MongoCache_init
    \/ Call_MongoCache_get_llm_cache

SpecVcore == InitVcore /\ [][NextVcore]_vars

(***************************************************************************)
(* Properties of the pipeline and the index command, under SpecVcore.      *)
(***************************************************************************)
\* C19: for each of the three index kinds the stage-1 request of a
\* similarity search carries the oversampling passed to the search (1 when
\* none is), efSearch for HNSW, lSearch for DISKANN (40 when none is given)
\* and the pre-filter when one is given; stage 2 projects the similarity
\* score and the whole document.
C19_RequestCarriesParameters ==
    (call.op = "_similarity_search_with_score"
         /\ call.kind \in CosmosDBVectorSearchType)
        => LET pipeline == call.calls[1].pipeline
               params == pipeline[1]["$search"]["cosmosSearch"]
           IN  /\ Len(pipeline) = 2
               /\ params["oversampling"] = get(call.kwargs, "oversampling", 1)
               /\ call.kind = VECTOR_HNSW
                      => params["efSearch"] = get(call.kwargs, "ef_search", 40)
               /\ call.kind = VECTOR_DISKANN
                      => params["lSearch"] = get(call.kwargs, "l_search", 40)
               /\ "pre_filter" \in DOMAIN call.kwargs
                      => /\ "filter" \in DOMAIN params
                         /\ params["filter"] = call.kwargs["pre_filter"]
               /\ DOMAIN pipeline[2] = {"$project"}
               /\ pipeline[2]["$project"]["similarityScore"]
                      = ("$meta" :> "searchScore")
               /\ pipeline[2]["$project"]["document"] = "$$ROOT"

Incompatible(kind, compression) ==
    \/ compression = HALF /\ kind = VECTOR_DISKANN
    \/ compression = PQ /\ kind \in {VECTOR_IVF, VECTOR_HNSW}

SentOptions(command) == command["indexes"][1]["cosmosSearchOptions"]

\* C20: a compression incompatible with the index kind (HALF with DISKANN,
\* PQ with IVF or HNSW) is rejected when the cache is constructed or the
\* index configured, and no index-creation command with such a pair is sent
\* to the backend.
C20_IncompatibleCompressionRejected ==
    /\ (call.op \in {"__init__", "create_index"}
            /\ Incompatible(call.kind, call.compression))
           => call.raised # None
    /\ \A n \in 1..Len(call.calls) :
           (call.calls[n].call = "command"
                /\ "indexes" \in DOMAIN call.calls[n].command)
               => ~Incompatible(
                      SentOptions(call.calls[n].command)["kind"],
                      get(SentOptions(call.calls[n].command), "compression", None))

(***************************************************************************)
(* Mongo vCore add_texts (azure_cosmos_db_mongo_vcore.py, lines 438-484).  *)
(* Texts are numbered 1..n; a metadata entry is a one-key mapping that     *)
(* names its position, so a document paired with the wrong entry shows.    *)
(***************************************************************************)
DEFAULT_INSERT_BATCH_SIZE == 128

Min(a, b) == IF a <= b THEN a ELSE b

\* zip(a, b): as long as the shorter of the two
ZipShortest(a, b) == [i \in 1..Min(Len(a), Len(b)) |-> <<a[i], b[i]>>]

\* ({} for _ in texts)
EmptyMetadatas(texts) == [i \in 1..Len(texts) |-> EmptyDict]

\* insert_many: the backend stores the documents in order and gives each
\* an id of its own
insert_many(stored, to_insert) ==
    LET ids == [i \in 1..Len(to_insert) |-> <<"oid", Len(stored) + i>>]
    IN [inserted_ids |-> ids,
        stored |-> stored \o [i \in 1..Len(to_insert) |->
                                 ("_id" :> ids[i]) @@ to_insert[i]]]

\* _insert_texts, lines 461-484
Mongo__insert_texts(texts, metadatas, stored) ==
    IF Len(texts) = 0
    THEN [ids |-> <<>>, stored |-> stored, calls |-> <<>>]
    ELSE LET embeddings == embed_documents(texts)
             n == Min(Len(texts), Min(Len(metadatas), Len(embeddings)))
             to_insert == [i \in 1..n |->
                              [textContent |-> texts[i],
                               vectorContent |-> embeddings[i],
                               metadata |-> metadatas[i]]]
             insert_result == insert_many(stored, to_insert)
         IN [ids |-> insert_result.inserted_ids,
             stored |-> insert_result.stored,
             calls |-> <<Len(to_insert)>>]

\* result_ids.extend(self._insert_texts(texts_batch, metadatas_batch));
\* texts_batch = []; metadatas_batch = []
Extended(st, inserted) ==
    [texts_batch |-> <<>>, metadatas_batch |-> <<>>,
     result_ids |-> st.result_ids \o inserted.ids,
     stored |-> inserted.stored,
     calls |-> st.calls \o inserted.calls]

\* the loop of add_texts, lines 450-456, taken one batch at a time: from
\* position first (counted from 1, the code's i + 1) the batch lists grow
\* until the next position that is a multiple of batch_size, where they are
\* inserted and reset; what is left after the last such position stays in
\* the batch lists
Firsts(pairs, from, to) == [i \in 1..(to - from + 1) |-> pairs[from + i - 1][1]]
Seconds(pairs, from, to) == [i \in 1..(to - from + 1) |-> pairs[from + i - 1][2]]

RECURSIVE Mongo_add_texts_loop(_, _, _, _)
Mongo_add_texts_loop(first, pairs, batch_size, st) ==
    LET full == first + ((batch_size - (first % batch_size)) % batch_size)
    IN IF full <= Len(pairs)
       THEN Mongo_add_texts_loop(full + 1, pairs, batch_size,
                Extended(st, Mongo__insert_texts(
                                 st.texts_batch \o Firsts(pairs, first, full),
                                 st.metadatas_batch \o Seconds(pairs, first, full),
                                 st.stored)))
       ELSE [st EXCEPT
               !.texts_batch = @ \o Firsts(pairs, first, Len(pairs)),
               !.metadatas_batch = @ \o Seconds(pairs, first, Len(pairs))]

\* add_texts, lines 438-459; metadatas is <<>> for None and for an empty
\* list alike (both are falsy), kwargs may hold batch_size
Mongo_add_texts_rest(st) ==
    IF Len(st.texts_batch) > 0
    THEN Extended(st, Mongo__insert_texts(st.texts_batch, st.metadatas_batch,
                                          st.stored))
    ELSE st

Mongo_add_texts(texts, metadatas, kwargs) ==
    LET batch_size == get(kwargs, "batch_size", DEFAULT_INSERT_BATCH_SIZE)
        _metadatas == IF Len(metadatas) > 0 THEN metadatas
                      ELSE EmptyMetadatas(texts)
        done == Mongo_add_texts_rest(
                    Mongo_add_texts_loop(1, ZipShortest(texts, _metadatas), batch_size,
                        [texts_batch |-> <<>>, metadatas_batch |-> <<>>,
                         result_ids |-> <<>>, stored |-> <<>>, calls |-> <<>>]))
    IN [raised |-> None, value |-> done.result_ids, calls |-> done.calls,
        stored |-> done.stored]

(***************************************************************************)
(* SpecAddTexts: Init draws the number of texts, the metadatas list and    *)
(* the batch_size keyword; add_texts is applied to them on an empty        *)
(* collection.                                                             *)
(***************************************************************************)
MaxTexts == 4
MaxBatchSize == 3

Metadatas(m) == [i \in 1..m |-> ("source" :> i)]

\* text counts around the default batch size, with batch_size left out
DefaultBatchCounts ==
    { DEFAULT_INSERT_BATCH_SIZE - 1, DEFAULT_INSERT_BATCH_SIZE,
      DEFAULT_INSERT_BATCH_SIZE + 1, 2 * DEFAULT_INSERT_BATCH_SIZE }

AddTextsArguments(n, m, kwargs) ==
    [op |-> "init", n |-> n, m |-> m, kwargs |-> kwargs,
     raised |-> None, value |-> <<>>, calls |-> <<>>, stored |-> <<>>]

AddTextsInputs ==
    UNION { { AddTextsArguments(n, m, kwargs) :
                  m \in 0..(n + 1),
                  kwargs \in Optional("batch_size", 1..MaxBatchSize) } :
            n \in 0..MaxTexts }
    \cup UNION { { AddTextsArguments(n, m, EmptyDict) : m \in {0, n - 1, n} } :
                 n \in DefaultBatchCounts }

InitAddTexts ==
    /\ CacheIdle
    /\ ConcIdle
    /\ search_type = None
    /\ call \in AddTextsInputs

Call_Mongo_add_texts ==
    /\ call.op = "init"
    /\ LET result == Mongo_add_texts(Texts(call.n), Metadatas(call.m), call.kwargs)
       IN call' = [call EXCEPT !.op = "add_texts", !.raised = result.raised,
                               !.value = result.value, !.calls = result.calls,
                               !.stored = result.stored]
    /\ UNCHANGED <<cacheVars, concVars, search_type>>

NextAddTexts == Call_Mongo_add_texts

SpecAddTexts == InitAddTexts /\ [][NextAddTexts]_vars

BatchSizeOf(c) == get(c.kwargs, "batch_size", DEFAULT_INSERT_BATCH_SIZE)

\* C29: add_texts inserts exactly one document per input text, in input
\* order, in insert batches of at most batch_size (128 when not given), and
\* returns one id per text, whatever the lengths of texts and metadatas.
C29_OneDocumentPerText ==
    call.op = "add_texts" =>
        /\ call.raised = None
        /\ Len(call.stored) = call.n
        /\ \A i \in 1..Len(call.stored) : call.stored[i].textContent = Texts(call.n)[i]
        /\ \A j \in 1..Len(call.calls) : call.calls[j] <= BatchSizeOf(call)
        /\ Len(call.value) = call.n

====
